---- MODULE Spec2Model ----
(***************************************************************************)
(* Verification model of opensphere-jscodeshift: the documentation-comment *)
(* splitter, the goog.provide -> goog.module rewrite, the class conversion *)
(* passes and the goog.exportProperty transform.                           *)
(*                                                                         *)
(* Text is modelled as a sequence of tokens.  Whitespace and punctuation   *)
(* are one token per character (" ", "\n", "*", "{", "}", "<", ">"), a     *)
(* JSDoc tag ("@param", ...) is one token and "w" stands for a word that   *)
(* holds none of the characters the code looks for.                        *)
(***************************************************************************)
EXTENDS Integers, Sequences, FiniteSets, TLC

\* ------------------------------------------------------------------ bounds
\* Number of lines chosen between the opening and the closing line of a comment.
MaxLines == 4

\* Statements a program holds besides its first one.
MaxStmts == 2

\* Calls a run makes of the functions of the classes module.
MaxCalls == 2

\* Calls of getInstance made on the converted program.
MaxGets == 2

\* Statements of a program given to replaceProvidesWithModules.
MaxProvideStmts == 3

\* Statements of a program given to the exportProperty transform.
MaxExportStmts == 3

\* Statements of a program given to the isDef and isDefAndNotNull transforms.
MaxBinaryStmts == 2

\* ------------------------------------------------------------------- state
VARIABLES
  comment,            \* splitCommentsForClass: the argument
  origParts,          \* comment.trim().split('\n')
  lineIdx,            \* the loop counter i, 1-based
  inParam,            \* the parameter-block flag
  classCommentParts,  \* lines routed to the class comment
  ctorCommentParts,   \* lines routed to the constructor comment
  routed,             \* history: the branch taken for each line visited
  splitPc,            \* "idle" | "loop" | "done"
  classComments       \* the returned {body, ctor}; NoComments before the return

splitVars == <<comment, origParts, lineIdx, inParam, classCommentParts,
               ctorCommentParts, routed, splitPc, classComments>>

VARIABLES
  impl,         \* which classes module is loaded: "scripts" (part_002) or
                \* "utils" (src/src/utils/classes.js)
  original,     \* the program body as parsed
  programBody,  \* Program.body
  classNodes,   \* the class declaration nodes built so far
  registry,     \* the class registry
  warnings,     \* what logger.warn was given
  thrown,       \* "none", or the error that ended the run
  exported,     \* the names given to addExports
  nextId,       \* the next fresh statement id
  callLog,      \* history: the calls made, [fn, id, left, moduleName, found]
  passOrder     \* history: the passes the last call started, in order

classVars == <<impl, original, programBody, classNodes, registry, warnings,
               thrown, exported, nextId, callLog, passOrder>>

\* The converted program when it is loaded and run.
VARIABLES
  loaded,       \* the module's top-level statements have run
  instance,     \* the module-scoped binding `instance`; 0 is undefined
  constructed,  \* how many times  new <Class>()  has run
  returned      \* history: what each getInstance call returned

runVars == <<loaded, instance, constructed, returned>>

VARIABLES
  provideOriginal,  \* replaceProvidesWithModules: Program.body as parsed
  provideBody,      \* Program.body
  modules,          \* the returned list of module names
  providePc         \* "idle" | "parsed" | "done"

provideVars == <<provideOriginal, provideBody, modules, providePc>>

VARIABLES
  exportOriginal,   \* the exportProperty transform: Program.body as parsed
  exportBody,       \* Program.body
  exportThrown,     \* "none", or the error that ended the transform
  exportPc          \* "idle" | "parsed" | "done"

exportVars == <<exportOriginal, exportBody, exportThrown, exportPc>>

VARIABLES
  transform,        \* which transform runs: "isdef" | "isdefandnotnull"
  binaryOriginal,   \* the transform's file: Program.body as parsed
  binaryBody,       \* Program.body
  binaryPc          \* "idle" | "parsed" | "done"

binaryVars == <<transform, binaryOriginal, binaryBody, binaryPc>>

vars == <<splitVars, classVars, runVars, provideVars, exportVars, binaryVars>>

\* ------------------------------------------------------------ text helpers
\* String.prototype.trim: whitespace is the blank and the line break.
IsWhitespace(t) == t \in {" ", "\n"}

RECURSIVE TrimStart(_)
TrimStart(s) ==
  IF s = <<>> THEN s
  ELSE IF IsWhitespace(Head(s)) THEN TrimStart(Tail(s)) ELSE s

RECURSIVE TrimEnd(_)
TrimEnd(s) ==
  IF s = <<>> THEN s
  ELSE IF IsWhitespace(s[Len(s)]) THEN TrimEnd(SubSeq(s, 1, Len(s) - 1)) ELSE s

Trim(s) == TrimEnd(TrimStart(s))

\* String.prototype.startsWith
StartsWith(s, p) == Len(s) >= Len(p) /\ SubSeq(s, 1, Len(p)) = p

\* A token occurs in the text (RegExp.test of a literal tag).
Contains(s, t) == \E k \in 1..Len(s) : s[k] = t

\* Array.prototype.join('\n')
RECURSIVE JoinLines(_)
JoinLines(parts) ==
  IF parts = <<>> THEN <<>>
  ELSE IF Len(parts) = 1 THEN parts[1]
  ELSE parts[1] \o <<"\n">> \o JoinLines(Tail(parts))

\* String.prototype.split('\n'): the empty text splits into one empty line.
RECURSIVE SplitLines(_, _)
SplitLines(s, cur) ==
  IF s = <<>> THEN <<cur>>
  ELSE IF Head(s) = "\n" THEN <<cur>> \o SplitLines(Tail(s), <<>>)
  ELSE SplitLines(Tail(s), Append(cur, Head(s)))

\* ------------------------------------------------------- comment splitter
\* /@ngInject/.test(line)
CTOR_COMMENT_REGEXP(line) == Contains(line, "@ngInject")

\* /@constructor/.test(line)
COMMENT_IGNORE_REGEXP(line) == Contains(line, "@constructor")

\* /@extends/.test(line)
EXTENDS_TAG(line) == Contains(line, "@extends")

\* A test no line passes: every @extends line counts as one without a
\* generic type.
EXTENDS_GENERIC_NEVER(line) == FALSE

\* /@extends {.+<.+>}/.test(line): the tag, a blank, "{", one or more
\* characters, "<", one or more characters, ">}".
EXTENDS_GENERIC(line) ==
  \E p \in 1..Len(line) :
    /\ line[p] = "@extends"
    /\ p + 2 <= Len(line)
    /\ line[p + 1] = " "
    /\ line[p + 2] = "{"
    /\ \E q \in (p + 4)..Len(line) :
         /\ line[q] = "<"
         /\ \E r \in (q + 2)..(Len(line) - 1) :
              line[r] = ">" /\ line[r + 1] = "}"

\* A test for two spaces after the asterisk in place of three.
IsParamContinuationTwoSpaces(trimmed) == StartsWith(trimmed, <<"*", " ", " ">>)

\* part.trim().startsWith('*   ')
IsParamContinuation(trimmed) == StartsWith(trimmed, <<"*", " ", " ", " ">>)

\* part.trim().startsWith('* @param')
IsParamStart(trimmed) == StartsWith(trimmed, <<"*", " ", "@param">>)

\* !part || part.trim() === '*'
IsBlankCommentLine(part) == part = <<>> \/ Trim(part) = <<"*">>

RECURSIVE DropLeadingBlank(_)
DropLeadingBlank(parts) ==
  IF parts # <<>> /\ IsBlankCommentLine(parts[1])
  THEN DropLeadingBlank(Tail(parts)) ELSE parts

RECURSIVE DropTrailingBlank(_)
DropTrailingBlank(parts) ==
  IF parts # <<>> /\ IsBlankCommentLine(parts[Len(parts)])
  THEN DropTrailingBlank(SubSeq(parts, 1, Len(parts) - 1)) ELSE parts

\* The lines of the block createCommentBlockFromParts builds, before the join.
CommentBlockLines(commentParts) ==
  <<<<"*">>>> \o DropTrailingBlank(DropLeadingBlank(commentParts)) \o <<<<" ">>>>

createCommentBlockFromParts(commentParts) == JoinLines(CommentBlockLines(commentParts))

\* The first element of ctorCommentParts: ' * Constructor.'
CtorHeader == <<" ", "*", " ", "Constructor.">>

\* A loop body that tests for the parameter block before it tests for the
\* tags to drop.
RouteAsParamFirst(part, inParamNow) ==
  LET trimmed == Trim(part) IN
  IF IsParamStart(trimmed) \/ inParamNow THEN "param"
  ELSE IF COMMENT_IGNORE_REGEXP(trimmed) THEN "drop"
  ELSE IF EXTENDS_TAG(trimmed) /\ ~EXTENDS_GENERIC(trimmed) THEN "drop"
  ELSE IF CTOR_COMMENT_REGEXP(trimmed) THEN "ctor"
  ELSE "class"

\* The branch of the if-chain the loop body takes for one line.
RouteAs(part, inParamNow) ==
  LET trimmed == Trim(part) IN
  IF COMMENT_IGNORE_REGEXP(trimmed) THEN "drop"
  ELSE IF EXTENDS_TAG(trimmed) /\ ~EXTENDS_GENERIC(trimmed) THEN "drop"
  ELSE IF IsParamStart(trimmed) \/ inParamNow THEN "param"
  ELSE IF CTOR_COMMENT_REGEXP(trimmed) THEN "ctor"
  ELSE "class"

\* ------------------------------------------------------ the comment splitter
NoComments == [body |-> <<>>, ctor |-> <<>>]

\* The lines a doc comment is drawn from (the text between the opening line
\* of the block and its closing line).
BlankLine         == <<" ", "*">>
TextLine          == <<" ", "*", " ", "w">>
IndentedLine      == <<" ", "*", " ", " ", " ", "w">>
ShallowLine       == <<" ", "*", " ", " ", "w">>
ParamLine         == <<" ", "*", " ", "@param", " ", "{", "w", "}", " ", "w">>
NgInjectLine      == <<" ", "*", " ", "@ngInject">>
ConstructorLine   == <<" ", "*", " ", "@constructor">>
ExtendsLine       == <<" ", "*", " ", "@extends", " ", "{", "w", "}">>
ExtendsGenericLine == <<" ", "*", " ", "@extends", " ", "{", "w", "<", "w", ">", "}">>
IndentedCtorLine  == <<" ", "*", " ", " ", " ", "@constructor">>

CommentLines ==
  {BlankLine, TextLine, IndentedLine, ShallowLine, ParamLine, NgInjectLine,
   ConstructorLine, ExtendsLine, ExtendsGenericLine, IndentedCtorLine}

\* All sequences over S of length at most n.
SeqsUpTo(S, n) == UNION {[1..k -> S] : k \in 0..n}

\* The value of a block comment /** ... */ holding the given lines: the
\* opening line is "*" and the closing line is the blank before "*/".
CommentValue(lines) == JoinLines(<<<<"*">>>> \o lines \o <<<<" ">>>>)

\* splitCommentsForClass, entry: lines 120-124.
SplitInit ==
  /\ \E lines \in SeqsUpTo(CommentLines, MaxLines) : comment = CommentValue(lines)
  /\ origParts = SplitLines(Trim(comment), <<>>)
  /\ lineIdx = 1
  /\ inParam = FALSE
  /\ classCommentParts = <<>>
  /\ ctorCommentParts = <<CtorHeader>>
  /\ routed = <<>>
  /\ splitPc = "loop"
  /\ classComments = NoComments

\* A loop body without the indentation test: the flag is never cleared.
InParamNeverCleared(flag, part) == flag

\* The parameter-block flag after the indentation test at the top of the
\* loop body (lines 129-132).
InParamAfterIndentTest(flag, part) ==
  IF flag /\ ~IsParamContinuation(Trim(part)) THEN FALSE ELSE flag

\* One iteration of the for loop (lines 125-148).
splitCommentsForClassStep ==
  /\ splitPc = "loop"
  /\ lineIdx <= Len(origParts)
  /\ LET part  == origParts[lineIdx]
         flag  == InParamAfterIndentTest(inParam, part)
         route == RouteAs(part, flag)
     IN /\ classCommentParts' =
             IF route = "class" THEN Append(classCommentParts, part)
             ELSE classCommentParts
        /\ ctorCommentParts' =
             IF route \in {"param", "ctor"} THEN Append(ctorCommentParts, part)
             ELSE ctorCommentParts
        /\ inParam' = IF route = "param" THEN TRUE ELSE flag
        /\ routed' = Append(routed, route)
  /\ lineIdx' = lineIdx + 1
  /\ UNCHANGED <<comment, origParts, splitPc, classComments>>
  /\ UNCHANGED <<classVars, runVars, provideVars, exportVars, binaryVars>>

\* The loop exit and the return statement (lines 150-153).
splitCommentsForClassReturn ==
  /\ splitPc = "loop"
  /\ lineIdx > Len(origParts)
  /\ classComments' = [body |-> createCommentBlockFromParts(classCommentParts),
                       ctor |-> createCommentBlockFromParts(ctorCommentParts)]
  /\ splitPc' = "done"
  /\ UNCHANGED <<comment, origParts, lineIdx, inParam, classCommentParts,
                 ctorCommentParts, routed>>
  /\ UNCHANGED <<classVars, runVars, provideVars, exportVars, binaryVars>>

\* The whole of splitCommentsForClass as a function of the comment: the loop
\* run from its entry state to its exit.
RECURSIVE SplitLoop(_, _, _, _, _)
SplitLoop(parts, k, flag, classParts, ctorParts) ==
  IF k > Len(parts)
  THEN [body |-> createCommentBlockFromParts(classParts),
        ctor |-> createCommentBlockFromParts(ctorParts)]
  ELSE LET now   == InParamAfterIndentTest(flag, parts[k])
           route == RouteAs(parts[k], now)
       IN SplitLoop(parts, k + 1,
                    IF route = "param" THEN TRUE ELSE now,
                    IF route = "class" THEN Append(classParts, parts[k])
                    ELSE classParts,
                    IF route \in {"param", "ctor"} THEN Append(ctorParts, parts[k])
                    ELSE ctorParts)

splitCommentsForClass(text) ==
  SplitLoop(SplitLines(Trim(text), <<>>), 1, FALSE, <<>>, <<CtorHeader>>)

\* ------------------------------------------------------------ program tree
\* A qualified reference a.b.c is the sequence <<"a", "b", "c">> of its
\* identifiers: a sequence of length 1 is an Identifier node, a longer one a
\* MemberExpression node whose object is the sequence without its last name.
IsMemberExpression(chain) == Len(chain) >= 2

\* chain starts with the names of prefix
HasPrefix(chain, prefix) ==
  Len(chain) >= Len(prefix) /\ SubSeq(chain, 1, Len(prefix)) = prefix

\* jscs(path).replaceWith(identifier) on the member expression `prefix` found
\* inside chain: the sub-tree that spells prefix becomes the identifier.
ReplacePrefix(chain, prefix, replacement) ==
  IF IsMemberExpression(prefix) /\ HasPrefix(chain, prefix)
  THEN replacement \o SubSeq(chain, Len(prefix) + 1, Len(chain))
  ELSE chain

\* The same replacement applied to every element of a sequence of chains.
ReplaceInChains(chains, prefix, replacement) ==
  [k \in 1..Len(chains) |-> ReplacePrefix(chains[k], prefix, replacement)]

\* A statement of the program body.  Every statement carries all fields;
\* those its type does not use keep the values of NoStmt.
\*   type     "Assignment"  expression statement  left = right
\*            "Call"        expression statement  callee(args)
\*            "ClassDeclaration", "VariableDeclaration", "Member" (the bare
\*            expression statement  a.b.c;)
\*   rtype    the type of the right-hand side / initializer
\*   refs     the qualified references inside the right-hand side
\*   calls    the call expressions inside a function-valued right-hand side
\*   comments the value of the attached block comment (hasComments says
\*            whether there is one)
\*   node     ClassDeclaration: the index of the class node in classNodes
NoStmt ==
  [id |-> 0, type |-> "", left |-> <<>>, rtype |-> "", refs |-> <<>>,
   calls |-> <<>>, callee |-> <<>>, args |-> <<>>, comments |-> <<>>,
   hasComments |-> FALSE, node |-> 0, declKind |-> "", name |-> "",
   controller |-> FALSE]

\* A call expression inside a function body.
\*   callee   the called member expression; <<"super">> or <<"super", fn>>
\*            after a rewrite
\*   argTypes the node types of the arguments, args their texts
NoCall == [callee |-> <<>>, argTypes |-> <<>>, args |-> <<>>]

\* A method of a class body.
NoMethod ==
  [key |-> "", kind |-> "method", static |-> FALSE, rtype |-> "",
   params |-> <<>>,
   refs |-> <<>>, calls |-> <<>>, body |-> <<>>, comments |-> <<>>,
   hasComments |-> FALSE]

\* A class declaration node.
NoClass == [name |-> "", superClass |-> <<>>, methods |-> <<>>,
            comments |-> <<>>, hasComments |-> FALSE]

\* The position of the statement with the given id in the body, 0 if the
\* statement is not (or no longer) in the body.
StmtIndex(body, id) ==
  IF \E k \in 1..Len(body) : body[k].id = id
  THEN CHOOSE k \in 1..Len(body) : body[k].id = id
  ELSE 0

\* jscs(path).remove() of a statement
RemoveAt(body, k) == SubSeq(body, 1, k - 1) \o SubSeq(body, k + 1, Len(body))

\* jscs(path).insertBefore(node)
InsertAt(body, k, stmt) ==
  SubSeq(body, 1, k - 1) \o <<stmt>> \o SubSeq(body, k, Len(body))

\* The ids of the statements of body that satisfy Match, in source order
\* (the collection root.find returns).
FindIds(body, Match(_)) ==
  LET found == SelectSeq(body, Match)
  IN [k \in 1..Len(found) |-> found[k].id]

\* ----------------------------------------------------------- class registry
\* The state one run of a transform works on, passed through the passes:
\*   body      Program.body
\*   nodes     the class declaration nodes built so far (a registry entry
\*             and a ClassDeclaration statement both point into it)
\*   registry  the entries of the class registry, [path, node]
\*   warnings  the messages given to logger.warn
\*   thrown    "none", or the error that ended the run
\*   exported  the names given to addExports
\*   nextId    the next fresh statement id
\*   order     the passes started so far

\* getClassNode: the node registered for the module name, 0 for undefined.
getClassNode(entries, moduleName) ==
  IF \E k \in 1..Len(entries) : entries[k].path = moduleName
  THEN entries[CHOOSE k \in 1..Len(entries) :
                  /\ entries[k].path = moduleName
                  /\ \A j \in 1..(k - 1) : entries[j].path # moduleName].node
  ELSE 0

\* An uncaught exception: the statements after the throwing one do not run.
Throw(w, error) == [w EXCEPT !.thrown = error]

\* A pass starts.
Start(w, pass) == [w EXCEPT !.order = Append(@, pass)]

\* Sequencing of two statements: the second runs on what the first left
\* unless the first threw.
Then(w, Rest(_)) == IF w.thrown # "none" THEN w ELSE Rest(w)

\* A registry that records every registration.
registerClassNodeUnchecked(w, moduleName, node) ==
  [w EXCEPT !.registry = Append(@, [path |-> moduleName, node |-> node])]

\* registerClassNode: registering a second node for a path is fatal.
registerClassNode(w, moduleName, node) ==
  IF getClassNode(w.registry, moduleName) # 0
  THEN Throw(w, "RegistryError")
  ELSE [w EXCEPT !.registry = Append(@, [path |-> moduleName, node |-> node])]

\* isPrivate(node): the doc comment carries @private
isPrivate(stmt) == stmt.hasComments /\ Contains(stmt.comments, "@private")

\* logger.warn
Warn(w, message) == [w EXCEPT !.warnings = Append(@, message)]

\* addExports(root, name)
addExports(w, name) == [w EXCEPT !.exported = Append(@, name)]

\* ------------------------------------------------------------ class passes
\* addMethodToClass: pushes the method onto the registered class body and
\* returns it; with no registered class nothing is pushed and the result is
\* undefined (see MethodAdded).
addMethodToClass(w, moduleName, method) ==
  LET classDef == getClassNode(w.registry, moduleName)
  IN IF classDef = 0 THEN w
     ELSE [w EXCEPT !.nodes[classDef].methods = Append(@, method)]

\* Whether addMethodToClass returned a method (not undefined).
MethodAdded(w, moduleName) == getClassNode(w.registry, moduleName) # 0

\* classMethod.comments = ...  on the method addMethodToClass returned:
\* a TypeError when that is undefined.
SetReturnedMethodComments(w, moduleName, hasComments, comments) ==
  LET classDef == getClassNode(w.registry, moduleName)
  IN IF classDef = 0 THEN Throw(w, "TypeError")
     ELSE LET n == Len(w.nodes[classDef].methods)
          IN [w EXCEPT !.nodes[classDef].methods[n].comments = comments,
                       !.nodes[classDef].methods[n].hasComments = hasComments]

\* jscs(path).remove() of the statement with the given id
RemoveStmt(w, id) ==
  LET k == StmtIndex(w.body, id)
  IN IF k = 0 THEN w ELSE [w EXCEPT !.body = RemoveAt(@, k)]

\* jscs(path.parent).replaceWith(node) of the statement with the given id
ReplaceStmt(w, id, stmt) ==
  LET k == StmtIndex(w.body, id)
  IN IF k = 0 THEN w ELSE [w EXCEPT !.body[k] = stmt]

\* String.prototype.replace(pattern, ''): the first occurrence of the token
\* sequence is cut out.
RemoveFirst(text, pattern) ==
  IF \E k \in 1..(Len(text) - Len(pattern) + 1) :
       SubSeq(text, k, k + Len(pattern) - 1) = pattern
  THEN LET k == CHOOSE k \in 1..(Len(text) - Len(pattern) + 1) :
                  /\ SubSeq(text, k, k + Len(pattern) - 1) = pattern
                  /\ \A j \in 1..(k - 1) :
                       SubSeq(text, j, j + Len(pattern) - 1) # pattern
       IN SubSeq(text, 1, k - 1) \o SubSeq(text, k + Len(pattern), Len(text))
  ELSE text

\* '\n * @const'
ConstTagLine == <<"\n", " ", "*", " ", "@const">>

\* '\n * @private'
PrivateTagLine == <<"\n", " ", "*", " ", "@private">>

\* The method addStaticGetToClass builds: a static getter returning the
\* right-hand side, the comment without its first '\n * @const'.
StaticGetMethod(stmt) ==
  [NoMethod EXCEPT !.key = stmt.left[Len(stmt.left)], !.kind = "get",
                   !.static = TRUE, !.rtype = stmt.rtype, !.refs = stmt.refs,
                   !.body = <<"ReturnValue">>,
                   !.hasComments = stmt.hasComments,
                   !.comments = IF stmt.hasComments
                                THEN RemoveFirst(stmt.comments, ConstTagLine)
                                ELSE <<>>]

\* addStaticGetToClass (src/src/utils/classes.js 64-82, part_002 71-89)
addStaticGetToClass(w, id, moduleName) ==
  LET classDef == getClassNode(w.registry, moduleName)
      stmt     == w.body[StmtIndex(w.body, id)]
  IN IF classDef = 0 THEN w
     ELSE IF ~IsMemberExpression(stmt.left) THEN Throw(w, "TypeError")
     ELSE RemoveStmt([w EXCEPT !.nodes[classDef].methods =
                                 Append(@, StaticGetMethod(stmt))], id)

\* The method built from a function-valued assignment.
FunctionMethod(stmt, isStatic) ==
  [NoMethod EXCEPT !.key = stmt.left[Len(stmt.left)], !.kind = "method",
                   !.static = isStatic, !.rtype = "FunctionExpression",
                   !.refs = stmt.refs, !.calls = stmt.calls,
                   !.body = <<"FunctionBody">>]

\* Moves a function-valued assignment into the class as a method:
\*   const classMethod = addMethodToClass(...);
\*   classMethod.comments = path.parent.value.comments;
\*   jscs(path).remove();
MoveFunctionToClass(w, id, moduleName, isStatic) ==
  LET stmt == w.body[StmtIndex(w.body, id)]
  IN IF ~IsMemberExpression(stmt.left) THEN Throw(w, "TypeError")
     ELSE Then(SetReturnedMethodComments(
                 addMethodToClass(w, moduleName, FunctionMethod(stmt, isStatic)),
                 moduleName, stmt.hasComments, stmt.comments),
               LAMBDA noted : RemoveStmt(noted, id))

\* replaceFQClass(node, moduleName): node.object = identifier(class name),
\* for the node  <object>.prototype  on the left of a prototype assignment.
replaceFQClass(w, id, moduleName) ==
  LET classDef == getClassNode(w.registry, moduleName)
      k        == StmtIndex(w.body, id)
      left     == w.body[k].left
  IN IF classDef = 0 THEN w
     ELSE [w EXCEPT !.body[k].left =
             <<w.nodes[classDef].name>> \o SubSeq(left, Len(left) - 1, Len(left))]

\* convertPrototypeAssignment without the warning of its last branch.
convertPrototypeAssignment_silent(w, id, moduleName) ==
  LET stmt == w.body[StmtIndex(w.body, id)]
  IN IF stmt.rtype = "FunctionExpression"
     THEN MoveFunctionToClass(w, id, moduleName, FALSE)
     ELSE IF stmt.rtype = "MemberExpression"
     THEN replaceFQClass(w, id, moduleName)
     ELSE w

\* convertPrototypeAssignment (part_002 168-183), the same function as
\* convertPrototypeExpression of src/src/utils/classes.js 231-246.
convertPrototypeAssignment(w, id, moduleName) ==
  LET stmt == w.body[StmtIndex(w.body, id)]
  IN IF stmt.rtype = "FunctionExpression"
     THEN MoveFunctionToClass(w, id, moduleName, FALSE)
     ELSE IF stmt.rtype = "MemberExpression"
     THEN replaceFQClass(w, id, moduleName)
     ELSE Warn(w, [moduleName |-> moduleName,
                   name |-> <<stmt.left[Len(stmt.left)]>>,
                   what |-> stmt.rtype])

\* The rewrite of every member expression that spells prefix into the
\* replacement node, over one statement ...
RewriteStmt(stmt, prefix, replacement) ==
  [stmt EXCEPT !.left   = ReplacePrefix(@, prefix, replacement),
               !.refs   = ReplaceInChains(@, prefix, replacement),
               !.callee = ReplacePrefix(@, prefix, replacement),
               !.args   = ReplaceInChains(@, prefix, replacement),
               !.calls  = [k \in 1..Len(@) |->
                            [@[k] EXCEPT !.callee =
                               ReplacePrefix(@, prefix, replacement)]]]

\* ... over one class node ...
RewriteClass(class, prefix, replacement) ==
  [class EXCEPT !.superClass = ReplacePrefix(@, prefix, replacement),
                !.methods = [m \in 1..Len(@) |->
                   [@[m] EXCEPT !.refs = ReplaceInChains(@, prefix, replacement),
                                !.calls = [k \in 1..Len(@) |->
                                   [@[k] EXCEPT !.callee =
                                      ReplacePrefix(@, prefix, replacement)]]]]]

\* The class nodes that are in the tree: a ClassDeclaration statement of the
\* body points at them.
NodesInTree(w) ==
  {w.body[k].node : k \in {j \in 1..Len(w.body) : w.body[j].type = "ClassDeclaration"}}

\* ... and over the whole tree:
\*   root.find(jscs.MemberExpression, createFindMemberExprObject(prefix))
\*       .forEach(path => jscs(path).replaceWith(replacement))
ReplaceReferencesWith(w, prefix, replacement) ==
  [w EXCEPT !.body  = [k \in 1..Len(@) |-> RewriteStmt(@[k], prefix, replacement)],
            !.nodes = [n \in 1..Len(@) |->
                         IF n \in NodesInTree(w)
                         THEN RewriteClass(@[n], prefix, replacement)
                         ELSE @[n]]]

\* The replacement by jscs.identifier(identifier).
ReplaceReferences(w, prefix, identifier) ==
  ReplaceReferencesWith(w, prefix, <<identifier>>)

\* The comment lines convertPrivateClassPropertyToConst keeps: all but the
\* lines that read  * @private  or  * @const.
KeepUntaggedLines(text) ==
  JoinLines(SelectSeq(SplitLines(text, <<>>),
                      LAMBDA line : Trim(line) \notin {<<"*", " ", "@private">>,
                                                       <<"*", " ", "@const">>}))

\* insertBeforeClass: the node goes before every class declaration of the name.
RECURSIVE InsertBeforeClasses(_, _, _, _)
InsertBeforeClasses(w, k, className, stmt) ==
  IF k = 0 THEN w
  ELSE IF w.body[k].type = "ClassDeclaration" /\ w.nodes[w.body[k].node].name = className
  THEN InsertBeforeClasses(
         [w EXCEPT !.body = InsertAt(@, k, [stmt EXCEPT !.id = w.nextId]),
                   !.nextId = @ + 1],
         k - 1, className, stmt)
  ELSE InsertBeforeClasses(w, k - 1, className, stmt)

\* An insertion in front of the whole program.
insertBeforeProgram(w, className, stmt) ==
  [w EXCEPT !.body = <<[stmt EXCEPT !.id = w.nextId]>> \o @, !.nextId = @ + 1]

insertBeforeClass(w, className, stmt) ==
  InsertBeforeClasses(w, Len(w.body), className, stmt)

\* convertPrivateClassPropertyToConst (src/src/utils/classes.js 179-213)
convertPrivateClassPropertyToConst(w, id, moduleName) ==
  LET stmt == w.body[StmtIndex(w.body, id)]
  IN IF ~IsMemberExpression(stmt.left) THEN Throw(w, "TypeError")
     ELSE
       LET propertyName == stmt.left[Len(stmt.left)]
           varDeclaration ==
             [NoStmt EXCEPT !.id = w.nextId, !.type = "VariableDeclaration",
                            !.declKind = "const", !.name = propertyName,
                            !.rtype = stmt.rtype, !.refs = stmt.refs,
                            !.calls = stmt.calls, !.hasComments = TRUE,
                            !.comments = KeepUntaggedLines(stmt.comments)]
           classDef == getClassNode(w.registry, moduleName)
           placed ==
             IF classDef # 0
             THEN IF \E k \in 1..Len(stmt.refs) : HasPrefix(stmt.refs[k], moduleName)
                  THEN RemoveStmt([w EXCEPT !.body = Append(@, varDeclaration),
                                            !.nextId = @ + 1], id)
                  ELSE RemoveStmt(insertBeforeClass(w, w.nodes[classDef].name,
                                                    varDeclaration), id)
             ELSE ReplaceStmt([w EXCEPT !.nextId = @ + 1], id, varDeclaration)
       IN ReplaceReferences(placed, Append(moduleName, propertyName), propertyName)

\* A moveInheritsToClass that sets the superclass and keeps the call.
moveInheritsKeepingCall(w, id, moduleName) ==
  LET classDef == getClassNode(w.registry, moduleName)
      stmt     == w.body[StmtIndex(w.body, id)]
  IN IF classDef = 0 THEN w
     ELSE [w EXCEPT !.nodes[classDef].superClass = stmt.args[2]]

\* moveInheritsToClass (part_002 206-212, src/src/utils/classes.js 253-259)
moveInheritsToClass(w, id, moduleName) ==
  LET classDef == getClassNode(w.registry, moduleName)
      stmt     == w.body[StmtIndex(w.body, id)]
  IN IF classDef = 0 THEN w
     ELSE RemoveStmt([w EXCEPT !.nodes[classDef].superClass = stmt.args[2]], id)

\* The comment moveSingletonToClass writes on the instance binding.
InstanceComment(className, type) ==
  JoinLines(<<<<"*">>, <<" ", "*", " ", "Global", " ", className, " ", "instance.">>,
              <<" ", "*", " ", "@type", " ", "{">> \o type \o <<"}">>, <<" ">>>>)

\* The comment moveSingletonToClass writes on getInstance.
GetInstanceComment(type) ==
  JoinLines(<<<<"*">>, <<" ", "*", " ", "Get", " ", "the", " ", "global", " ", "instance.">>,
              <<" ", "*", " ", "@return", " ", "{">> \o type \o <<"}">>, <<" ">>>>)

\* The two statements of the getInstance body part_002 builds:
\*   if (!instance) { instance = new <Class>(); }   return instance;
LazyGetInstanceBody == <<"IfNotInstanceAssignNew", "ReturnInstance">>

\* The getInstance body src/src/utils/classes.js builds:  return instance;
ReturnInstanceBody == <<"ReturnInstance">>

\* moveSingletonToClass as both files write it, given the declaration kind,
\* the initializer and the getter body each of them builds.
SingletonToClass(w, id, moduleName, declKind, initType, instanceType,
                 getBody, returnType) ==
  LET classDef == getClassNode(w.registry, moduleName)
  IN IF classDef = 0 THEN w
     ELSE
       LET className == w.nodes[classDef].name
           varDeclaration ==
             [NoStmt EXCEPT !.id = w.nextId, !.type = "VariableDeclaration",
                            !.declKind = declKind, !.name = "instance",
                            !.rtype = initType, !.hasComments = TRUE,
                            !.comments = InstanceComment(className, instanceType)]
           replaced == ReplaceStmt([w EXCEPT !.nextId = @ + 1], id, varDeclaration)
           method == [NoMethod EXCEPT !.key = "getInstance", !.static = TRUE,
                                      !.rtype = "FunctionExpression",
                                      !.body = getBody]
           added == addMethodToClass(replaced, moduleName, method)
       IN SetReturnedMethodComments(added, moduleName, TRUE,
                                    GetInstanceComment(returnType))

\* moveSingletonToClass (part_002 231-258):  let instance;  and a getInstance
\* that constructs on first use.
moveSingletonToClass(w, id, moduleName) ==
  LET classDef  == getClassNode(w.registry, moduleName)
      className == IF classDef = 0 THEN "" ELSE w.nodes[classDef].name
  IN SingletonToClass(w, id, moduleName, "let", "none",
                      <<className, "|", "undefined">>,
                      LazyGetInstanceBody, <<"!", className>>)

\* moveSingletonToClass (src/src/utils/classes.js 278-296):
\* const instance = new <Class>();  and a getInstance that returns it.
moveSingletonToClass_utils(w, id, moduleName) ==
  LET classDef  == getClassNode(w.registry, moduleName)
      className == IF classDef = 0 THEN "" ELSE w.nodes[classDef].name
  IN SingletonToClass(w, id, moduleName, "const", "NewExpression",
                      <<className>>, ReturnInstanceBody, <<className>>)

\* replaceBaseWithSuper dropping the first argument only.
replaceBaseWithSuperKeepingName(call) ==
  IF call.argTypes[2] = "Literal"
  THEN LET fnName    == call.args[2]
           superArgs == SubSeq(call.args, 2, Len(call.args))
           superTypes == SubSeq(call.argTypes, 2, Len(call.argTypes))
       IN [call EXCEPT !.callee = IF fnName = "constructor" THEN <<"super">>
                                  ELSE <<"super", fnName>>,
                       !.args = superArgs, !.argTypes = superTypes]
  ELSE call

\* replaceBaseWithSuper (part_002 260-279) on one call  <path>.base(...)
replaceBaseWithSuper(call) ==
  IF call.argTypes[2] = "Literal"
  THEN LET fnName    == call.args[2]
           superArgs == SubSeq(call.args, 3, Len(call.args))
           superTypes == SubSeq(call.argTypes, 3, Len(call.argTypes))
       IN [call EXCEPT !.callee = IF fnName = "constructor" THEN <<"super">>
                                  ELSE <<"super", fnName>>,
                       !.args = superArgs, !.argTypes = superTypes]
  ELSE call

\* createFindCallFn(`${moduleName}.base`)
IsBaseCall(call, moduleName) == call.callee = Append(moduleName, "base")

\* The chain  <X>.superClass_.<fn>.call
IsSuperClassChain(call) ==
  /\ Len(call.callee) >= 4
  /\ call.callee[Len(call.callee) - 2] = "superClass_"
  /\ call.callee[Len(call.callee)] = "call"

\* memberExpressionToString(path.value.object) of the superClass_ member
SuperClassOwner(call) == SubSeq(call.callee, 1, Len(call.callee) - 3)

\* replaceSuperclassWithSuper (part_002 281-295) on one chain, when the
\* class names match
replaceSuperclassWithSuper(call) ==
  [call EXCEPT !.callee = <<"super", call.callee[Len(call.callee) - 1]>>,
               !.args = SubSeq(call.args, 2, Len(call.args)),
               !.argTypes = SubSeq(call.argTypes, 2, Len(call.argTypes))]

\* One pass over the calls of a function body.
BasePassOnCalls(calls, moduleName) ==
  [k \in 1..Len(calls) |->
     IF IsBaseCall(calls[k], moduleName) THEN replaceBaseWithSuper(calls[k])
     ELSE calls[k]]

SuperClassPassOnCalls(calls, moduleName) ==
  [k \in 1..Len(calls) |->
     IF IsSuperClassChain(calls[k]) /\ SuperClassOwner(calls[k]) = moduleName
     THEN replaceSuperclassWithSuper(calls[k]) ELSE calls[k]]

\* The calls of the whole tree, statement by statement and then method by
\* method of the classes in the tree, with one function applied to each list.
MapCalls(w, F(_)) ==
  [w EXCEPT !.body  = [k \in 1..Len(@) |-> [@[k] EXCEPT !.calls = F(@)]],
            !.nodes = [n \in 1..Len(@) |->
                         IF n \in NodesInTree(w)
                         THEN [@[n] EXCEPT !.methods =
                                 [m \in 1..Len(@) |-> [@[m] EXCEPT !.calls = F(@)]]]
                         ELSE @[n]]]

\* All calls of the tree, in one sequence.
RECURSIVE Flatten(_)
Flatten(seqs) == IF seqs = <<>> THEN <<>> ELSE Head(seqs) \o Flatten(Tail(seqs))

AllCalls(w) ==
  Flatten([k \in 1..Len(w.body) |->
             IF w.body[k].type = "ClassDeclaration"
             THEN Flatten([m \in 1..Len(w.nodes[w.body[k].node].methods) |->
                             w.nodes[w.body[k].node].methods[m].calls])
             ELSE w.body[k].calls])

\* The warnings of the superClass_ pass: one for each chain of another class.
SuperClassWarnings(w, moduleName) ==
  LET foreign == SelectSeq(AllCalls(w),
                   LAMBDA c : IsSuperClassChain(c) /\ SuperClassOwner(c) # moduleName)
  IN [k \in 1..Len(foreign) |->
        [moduleName |-> moduleName, name |-> SuperClassOwner(foreign[k]),
         what |-> "superClass_"]]

\* convertClass 479-481: replace all <class>.base calls with super
BasePass(w, moduleName) ==
  MapCalls(w, LAMBDA calls : BasePassOnCalls(calls, moduleName))

\* convertClass 483-485: replace all <class>.superClass_ calls with super
SuperClassPass(w, moduleName) ==
  LET warned == [w EXCEPT !.warnings = @ \o SuperClassWarnings(w, moduleName)]
  IN MapCalls(warned, LAMBDA calls : SuperClassPassOnCalls(calls, moduleName))

\* convertStaticProperty (part_002 159-166): only functions are moved.
convertStaticProperty(w, id, moduleName) ==
  LET stmt == w.body[StmtIndex(w.body, id)]
  IN IF stmt.rtype = "FunctionExpression"
     THEN MoveFunctionToClass(w, id, moduleName, TRUE)
     ELSE w

\* convertStaticProperty (src/src/utils/classes.js 218-229)
convertStaticProperty_utils(w, id, moduleName) ==
  LET stmt == w.body[StmtIndex(w.body, id)]
  IN IF stmt.rtype = "FunctionExpression"
     THEN MoveFunctionToClass(w, id, moduleName, TRUE)
     ELSE IF isPrivate(stmt)
     THEN convertPrivateClassPropertyToConst(w, id, moduleName)
     ELSE addStaticGetToClass(w, id, moduleName)

\* The filters of the passes of convertClass.
IsPrototypeAssignment(stmt, moduleName) ==
  /\ stmt.type = "Assignment"
  /\ Len(stmt.left) = Len(moduleName) + 2
  /\ HasPrefix(stmt.left, Append(moduleName, "prototype"))

IsStaticAssignment(stmt, moduleName) ==
  /\ stmt.type = "Assignment"
  /\ Len(stmt.left) = Len(moduleName) + 1
  /\ HasPrefix(stmt.left, moduleName)

IsSingletonCall(stmt, moduleName) ==
  /\ stmt.type = "Call"
  /\ stmt.callee = <<"goog", "addSingletonGetter">>
  /\ Len(stmt.args) >= 1
  /\ stmt.args[1] = moduleName

IsInheritsCall(stmt, moduleName) ==
  /\ stmt.type = "Call"
  /\ stmt.callee = <<"goog", "inherits">>
  /\ Len(stmt.args) >= 1
  /\ stmt.args[1] = moduleName

\* forEach over the collected paths: a throwing callback ends the loop.
RECURSIVE PrototypeForEach(_, _, _)
PrototypeForEach(w, ids, moduleName) ==
  IF ids = <<>> \/ w.thrown # "none" THEN w
  ELSE PrototypeForEach(convertPrototypeAssignment(w, Head(ids), moduleName),
                        Tail(ids), moduleName)

RECURSIVE StaticForEach(_, _, _, _)
StaticForEach(w, ids, moduleName, variant) ==
  IF ids = <<>> \/ w.thrown # "none" THEN w
  ELSE StaticForEach(IF variant = "utils"
                     THEN convertStaticProperty_utils(w, Head(ids), moduleName)
                     ELSE convertStaticProperty(w, Head(ids), moduleName),
                     Tail(ids), moduleName, variant)

RECURSIVE SingletonForEach(_, _, _, _)
SingletonForEach(w, ids, moduleName, variant) ==
  IF ids = <<>> \/ w.thrown # "none" THEN w
  ELSE SingletonForEach(IF variant = "utils"
                        THEN moveSingletonToClass_utils(w, Head(ids), moduleName)
                        ELSE moveSingletonToClass(w, Head(ids), moduleName),
                        Tail(ids), moduleName, variant)

RECURSIVE InheritsForEach(_, _, _)
InheritsForEach(w, ids, moduleName) ==
  IF ids = <<>> \/ w.thrown # "none" THEN w
  ELSE InheritsForEach(moveInheritsToClass(w, Head(ids), moduleName),
                       Tail(ids), moduleName)

\* convertClass 471-477: move all prototype functions/properties to the class
PrototypePass(w, moduleName) ==
  PrototypeForEach(w, FindIds(w.body, LAMBDA st : IsPrototypeAssignment(st, moduleName)),
                   moduleName)

\* convertClass 487-493: move all static properties to the class
StaticPass(w, moduleName, variant) ==
  StaticForEach(w, FindIds(w.body, LAMBDA st : IsStaticAssignment(st, moduleName)),
                moduleName, variant)

\* convertClass 495-499: move goog.addSingletonGetter to getInstance
SingletonPass(w, moduleName, variant) ==
  SingletonForEach(w, FindIds(w.body, LAMBDA st : IsSingletonCall(st, moduleName)),
                   moduleName, variant)

\* convertClass 501-505: move goog.inherits to the extends keyword
InheritsPass(w, moduleName) ==
  InheritsForEach(w, FindIds(w.body, LAMBDA st : IsInheritsCall(st, moduleName)),
                  moduleName)

\* The name of the class of a UI controller.
CONTROLLER_NAME == "Controller"

\* isControllerClass(node)
isControllerClass(stmt) == stmt.controller

\* classComments.body.replace(/ *$/, ' * @unrestricted\n ')
RECURSIVE StripTrailingBlanks(_)
StripTrailingBlanks(text) ==
  IF text # <<>> /\ text[Len(text)] = " "
  THEN StripTrailingBlanks(SubSeq(text, 1, Len(text) - 1)) ELSE text

AddUnrestricted(text) ==
  StripTrailingBlanks(text) \o <<" ", "*", " ", "@unrestricted", "\n", " ">>

\* The passes in another order: the static members right after the instance
\* members, and the inheritance declaration before the base calls.
ClassPassesMembersFirst(w, moduleName, className, variant) ==
  Then(Then(Then(Then(Then(Then(Then(
    PrototypePass(Start(w, "prototype"), moduleName),
    LAMBDA p1 : StaticPass(Start(p1, "static"), moduleName, variant)),
    LAMBDA p2 : InheritsPass(Start(p2, "inherits"), moduleName)),
    LAMBDA p3 : BasePass(Start(p3, "base"), moduleName)),
    LAMBDA p4 : SuperClassPass(Start(p4, "superClass_"), moduleName)),
    LAMBDA p5 : SingletonPass(Start(p5, "singleton"), moduleName, variant)),
    LAMBDA p6 : ReplaceReferences(Start(p6, "references"), moduleName,
                                  className)),
    LAMBDA p7 : addExports(Start(p7, "exports"), className))

\* The passes of convertClass after the registration (471-512), in order.
ClassPasses(w, moduleName, className, variant) ==
  Then(Then(Then(Then(Then(Then(Then(
    PrototypePass(Start(w, "prototype"), moduleName),
    LAMBDA p1 : BasePass(Start(p1, "base"), moduleName)),
    LAMBDA p2 : SuperClassPass(Start(p2, "superClass_"), moduleName)),
    LAMBDA p3 : StaticPass(Start(p3, "static"), moduleName, variant)),
    LAMBDA p4 : SingletonPass(Start(p4, "singleton"), moduleName, variant)),
    LAMBDA p5 : InheritsPass(Start(p5, "inherits"), moduleName)),
    LAMBDA p6 : ReplaceReferences(Start(p6, "references"), moduleName,
                                  className)),
    LAMBDA p7 : addExports(Start(p7, "exports"), className))

\* convertClass (part_002 448-513, src/src/utils/classes.js 376-441) on the
\* constructor assignment with the given id.
convertClass(w, id, moduleName, variant) ==
  LET k    == StmtIndex(w.body, id)
      stmt == w.body[k]
  IN IF ~IsMemberExpression(stmt.left) /\ ~isControllerClass(stmt)
     THEN Throw(w, "TypeError")
     ELSE
       LET isController == isControllerClass(stmt)
           className == IF isController THEN CONTROLLER_NAME
                        ELSE stmt.left[Len(stmt.left)]
           split == splitCommentsForClass(stmt.comments)
           ctor == [NoMethod EXCEPT !.key = "constructor", !.kind = "constructor",
                                    !.rtype = "FunctionExpression",
                                    !.refs = stmt.refs, !.calls = stmt.calls,
                                    !.body = <<"FunctionBody">>,
                                    !.hasComments = stmt.hasComments,
                                    !.comments = IF stmt.hasComments THEN split.ctor
                                                 ELSE <<>>]
           classDef == [NoClass EXCEPT !.name = className, !.methods = <<ctor>>,
                                       !.hasComments = stmt.hasComments,
                                       !.comments =
                                         IF ~stmt.hasComments THEN <<>>
                                         ELSE IF isController
                                         THEN AddUnrestricted(split.body)
                                         ELSE split.body]
           node == Len(w.nodes) + 1
           classStmt == [NoStmt EXCEPT !.id = w.nextId, !.type = "ClassDeclaration",
                                       !.node = node]
           replaced == [Start(w, "extract") EXCEPT
                          !.nodes = Append(@, classDef),
                          !.body[k] = classStmt,
                          !.nextId = @ + 1]
       IN Then(registerClassNode(Start(replaced, "register"), moduleName, node),
               LAMBDA registered :
                 ClassPasses(registered, moduleName, className, variant))

\* PARAM_NAME_REGEXP = /@param {[^}]+} ([^\s]+)/ on one line: the captured
\* name, <<>> when the line does not match.
RECURSIVE TakeNonBlank(_)
TakeNonBlank(text) ==
  IF text = <<>> \/ IsWhitespace(Head(text)) THEN <<>>
  ELSE <<Head(text)>> \o TakeNonBlank(Tail(text))

PARAM_NAME_REGEXP(line) ==
  LET Matches(p, q) ==
        /\ line[p] = "@param"
        /\ line[p + 1] = " "
        /\ line[p + 2] = "{"
        /\ q > p + 3
        /\ line[q] = "}"
        /\ \A j \in (p + 3)..(q - 1) : line[j] # "}"
        /\ line[q + 1] = " "
        /\ ~IsWhitespace(line[q + 2])
      hits == {pq \in (1..Len(line)) \X (1..Len(line)) :
                 pq[2] + 2 <= Len(line) /\ pq[1] + 3 < pq[2] /\ Matches(pq[1], pq[2])}
  IN IF hits = {} THEN <<>>
     ELSE LET first == CHOOSE pq \in hits : \A o \in hits : pq[1] <= o[1]
          IN TakeNonBlank(SubSeq(line, first[2] + 2, Len(line)))

\* The parameter names convertPrototypeExpression derives from a comment.
ParamNames(text) ==
  LET lines == SplitLines(text, <<>>)
      names == [k \in 1..Len(lines) |-> PARAM_NAME_REGEXP(Trim(lines[k]))]
  IN SelectSeq(names, LAMBDA n : n # <<>>)

\* convertPrototypeExpression (part_002 185-199) on the bare statement
\*   <moduleName>.prototype.<name>;   of an interface
convertPrototypeExpression(w, id, moduleName) ==
  LET stmt == w.body[StmtIndex(w.body, id)]
  IN IF ~stmt.hasComments THEN Throw(w, "TypeError")
     ELSE LET method == [NoMethod EXCEPT !.key = stmt.left[Len(stmt.left)],
                                         !.rtype = "FunctionExpression",
                                         !.params = ParamNames(stmt.comments),
                                         !.body = <<>>]
          IN Then(SetReturnedMethodComments(
                    addMethodToClass(w, moduleName, method),
                    moduleName, TRUE, stmt.comments),
                  LAMBDA noted : RemoveStmt(noted, id))

\* { expression: { object: createFindMemberExprObject(`${moduleName}.prototype`) } }
IsPrototypeExpression(stmt, moduleName) ==
  /\ stmt.type = "Member"
  /\ Len(stmt.left) = Len(moduleName) + 2
  /\ HasPrefix(stmt.left, Append(moduleName, "prototype"))

RECURSIVE InterfaceForEach(_, _, _)
InterfaceForEach(w, ids, moduleName) ==
  IF ids = <<>> \/ w.thrown # "none" THEN w
  ELSE InterfaceForEach(convertPrototypeExpression(w, Head(ids), moduleName),
                        Tail(ids), moduleName)

\* convertInterface 384-389: move all prototype expressions to the class
InterfacePass(w, moduleName) ==
  InterfaceForEach(w, FindIds(w.body, LAMBDA st : IsPrototypeExpression(st, moduleName)),
                   moduleName)

\* convertInterface (part_002 373-396)
convertInterface(w, id, moduleName) ==
  LET k    == StmtIndex(w.body, id)
      stmt == w.body[k]
  IN IF ~IsMemberExpression(stmt.left) \/ ~stmt.hasComments
     THEN Throw(w, "TypeError")
     ELSE
       LET interfaceName == stmt.left[Len(stmt.left)]
           classDef == [NoClass EXCEPT !.name = interfaceName,
                                       !.hasComments = TRUE,
                                       !.comments = stmt.comments]
           node == Len(w.nodes) + 1
           classStmt == [NoStmt EXCEPT !.id = w.nextId, !.type = "ClassDeclaration",
                                       !.node = node]
           replaced == [w EXCEPT !.nodes = Append(@, classDef),
                                 !.body[k] = classStmt,
                                 !.nextId = @ + 1]
       IN Then(Then(
            registerClassNode(replaced, moduleName, node),
            LAMBDA registered : InterfacePass(registered, moduleName)),
            LAMBDA moved :
              addExports(ReplaceReferences(moved, moduleName, interfaceName),
                         interfaceName))

\* isReassigned (part_002 398-406): more than one assignment to the property
isReassigned(w, moduleName, propName) ==
  Cardinality({k \in 1..Len(w.body) :
                 /\ w.body[k].type = "Assignment"
                 /\ w.body[k].left = Append(moduleName, propName)}) > 1

\* convertNamespaceExpression (part_002 408-440) on an expression statement
\*   <moduleName>.<propName> = value;   or   <moduleName>.<propName>;
convertNamespaceExpression(w, id, moduleName) ==
  LET k    == StmtIndex(w.body, id)
      stmt == w.body[k]
      isAssignment == stmt.type = "Assignment"
  IN IF ~IsMemberExpression(stmt.left) THEN Throw(w, "TypeError")
     ELSE
       LET propName == stmt.left[Len(stmt.left)]
       IN IF isPrivate(stmt)
          THEN LET kind == IF isAssignment /\ ~isReassigned(w, moduleName, propName)
                           THEN "const" ELSE "let"
                   varDeclaration ==
                     [NoStmt EXCEPT !.id = w.nextId, !.type = "VariableDeclaration",
                                    !.declKind = kind, !.name = propName,
                                    !.rtype = IF isAssignment THEN stmt.rtype ELSE "none",
                                    !.refs = stmt.refs, !.calls = stmt.calls,
                                    !.hasComments = TRUE,
                                    !.comments = RemoveFirst(stmt.comments, PrivateTagLine)]
               IN ReplaceReferences([w EXCEPT !.body[k] = varDeclaration,
                                              !.nextId = @ + 1],
                                    Append(moduleName, propName), propName)
          ELSE ReplaceReferencesWith([w EXCEPT !.body[k].left = <<"exports", propName>>],
                                     Append(moduleName, propName),
                                     <<"exports", propName>>)

\* -------------------------------------------------- comment splitter claims
\* The elements of parts whose route, by the history, lies in R, in order.
RECURSIVE SelectRouted(_, _, _)
SelectRouted(parts, routes, R) ==
  IF routes = <<>> THEN <<>>
  ELSE (IF Head(routes) \in R THEN <<Head(parts)>> ELSE <<>>)
       \o SelectRouted(Tail(parts), Tail(routes), R)

\* The two partitions hold exactly the visited lines the history says were
\* pushed to them (the constructor partition after its synthesized header).
PartitionsFollowHistory ==
  /\ Len(routed) = lineIdx - 1
  /\ classCommentParts = SelectRouted(origParts, routed, {"class"})
  /\ ctorCommentParts =
       <<CtorHeader>> \o SelectRouted(origParts, routed, {"param", "ctor"})

\* A line the code drops by design: the redundant @constructor marker, or an
\* @extends tag without a generic type.
IsDroppedTag(part) ==
  \/ Contains(part, "@constructor")
  \/ Contains(part, "@extends") /\ ~EXTENDS_GENERIC(Trim(part))

\* C1 as stated: every line of the comment is in exactly one of the class
\* partition and the constructor partition; no line is in both and no line is
\* in neither.
C1_EveryLineInExactlyOnePartition ==
  /\ PartitionsFollowHistory
  /\ Len(classCommentParts) + (Len(ctorCommentParts) - 1) = Len(routed)

\* C1 as amended: every line visited is pushed to at most one partition, and
\* the lines pushed to neither are exactly the @constructor lines and the
\* @extends lines without a generic type (before the blank-line trimming of
\* createCommentBlockFromParts).
C1_LinesSplitExceptDroppedTags ==
  /\ PartitionsFollowHistory
  /\ \A k \in 1..Len(routed) :
       (routed[k] = "drop") <=> IsDroppedTag(origParts[k])
  /\ Len(classCommentParts) + (Len(ctorCommentParts) - 1)
       + Cardinality({k \in 1..Len(routed) : IsDroppedTag(origParts[k])})
     = Len(routed)

\* C1 witness: a finished split that dropped a tag line and pushed lines to
\* both partitions.
C1_Witness ==
  /\ splitPc = "done"
  /\ \E k \in 1..Len(routed) : routed[k] = "drop"
  /\ Len(classCommentParts) >= 2
  /\ Len(ctorCommentParts) >= 2

\* The scenario of C2: the chosen lines are class-level text lines, exactly
\* one @param line followed directly by at least one indented continuation
\* line, and exactly one @ngInject line; indented lines occur only in the
\* parameter block.
IsC2Scenario(lines) ==
  /\ \A k \in 1..Len(lines) :
       lines[k] \in {TextLine, ParamLine, IndentedLine, NgInjectLine}
  /\ Cardinality({k \in 1..Len(lines) : lines[k] = ParamLine}) = 1
  /\ Cardinality({k \in 1..Len(lines) : lines[k] = NgInjectLine}) = 1
  /\ \E k \in 1..Len(lines) : lines[k] = TextLine
  /\ \E k \in 1..Len(lines) : lines[k] = IndentedLine
  /\ \A k \in 1..Len(lines) :
       lines[k] = IndentedLine =>
         k > 1 /\ lines[k - 1] \in {ParamLine, IndentedLine}

\* The lines of parts that belong to S, in order.
RECURSIVE KeepLines(_, _)
KeepLines(parts, S) ==
  IF parts = <<>> THEN <<>>
  ELSE (IF Head(parts) \in S THEN <<Head(parts)>> ELSE <<>>)
       \o KeepLines(Tail(parts), S)

\* C2: for a comment of interleaved class-level text, one multi-line @param
\* block and an @ngInject line, the lines of the comment that land in the
\* constructor partition are exactly the lines of the @param block and the
\* @ngInject line, in their order, and the returned constructor comment holds
\* them after the synthesized header.
C2_ParamBlockAndInjectGoToCtor ==
  (splitPc = "done" /\ IsC2Scenario(Tail(origParts))) =>
    LET expected == KeepLines(Tail(origParts),
                              {ParamLine, IndentedLine, NgInjectLine})
    IN /\ ctorCommentParts = <<CtorHeader>> \o expected
       /\ classCommentParts =
            <<Head(origParts)>> \o KeepLines(Tail(origParts), {TextLine})
       /\ classComments.ctor =
            JoinLines(<<<<"*">>, CtorHeader>> \o expected \o <<<<" ">>>>)

\* C2 witness: a finished split of such a comment whose class-level text
\* follows the parameter block.
C2_Witness ==
  /\ splitPc = "done"
  /\ IsC2Scenario(Tail(origParts))
  /\ \E k \in 2..Len(origParts) :
       origParts[k] = TextLine /\ origParts[k - 1] = IndentedLine

\* ------------------------------------------------------ class conversion run
WidgetPath == <<"app", "Widget">>
BasePath   == <<"app", "Base">>
ThingPath  == <<"app", "IThing">>
UtilPath   == <<"app", "util">>

ModuleNames == {WidgetPath, BasePath, ThingPath, UtilPath}

TypeLine      == <<" ", "*", " ", "@type", " ", "{", "w", "}">>
ConstLine     == <<" ", "*", " ", "@const">>
PrivateLine   == <<" ", "*", " ", "@private">>
InterfaceLine == <<" ", "*", " ", "@interface">>

\* The statement templates programs are made of (ids are given in Init).
\*   app.Widget = function(x) { app.Widget.base(this, 'constructor', x); };
CtorWidget ==
  [NoStmt EXCEPT !.type = "Assignment", !.left = WidgetPath,
                 !.rtype = "FunctionExpression",
                 !.calls = <<[callee |-> Append(WidgetPath, "base"),
                              argTypes |-> <<"ThisExpression", "Literal", "Identifier">>,
                              args |-> <<"this", "constructor", "x">>]>>,
                 !.hasComments = TRUE,
                 !.comments = CommentValue(<<TextLine, ParamLine, ConstructorLine,
                                             ExtendsLine>>)]

\*   app.Base = function() {};
CtorBase ==
  [NoStmt EXCEPT !.type = "Assignment", !.left = BasePath,
                 !.rtype = "FunctionExpression", !.hasComments = TRUE,
                 !.comments = CommentValue(<<TextLine, ConstructorLine>>)]

\*   app.Widget.prototype.render_ = function(x) {
\*     app.Widget.base(this, 'render_', x);
\*     app.Base.superClass_.init.call(this, x);
\*     this.n = app.Widget.COUNT;
\*   };
ProtoFunction ==
  [NoStmt EXCEPT !.type = "Assignment",
                 !.left = WidgetPath \o <<"prototype", "render_">>,
                 !.rtype = "FunctionExpression",
                 !.refs = <<Append(WidgetPath, "COUNT")>>,
                 !.calls = <<[callee |-> Append(WidgetPath, "base"),
                              argTypes |-> <<"ThisExpression", "Literal", "Identifier">>,
                              args |-> <<"this", "render_", "x">>],
                             [callee |-> BasePath \o <<"superClass_", "init", "call">>,
                              argTypes |-> <<"ThisExpression", "Identifier">>,
                              args |-> <<"this", "x">>]>>,
                 !.hasComments = TRUE,
                 !.comments = CommentValue(<<TextLine, PrivateLine>>)]

\*   app.Widget.prototype.alias = app.Widget.prototype.render_;
ProtoAlias ==
  [NoStmt EXCEPT !.type = "Assignment",
                 !.left = WidgetPath \o <<"prototype", "alias">>,
                 !.rtype = "MemberExpression",
                 !.refs = <<WidgetPath \o <<"prototype", "render_">>>>]

\*   app.Widget.prototype.size = 1;
ProtoLiteral ==
  [NoStmt EXCEPT !.type = "Assignment",
                 !.left = WidgetPath \o <<"prototype", "size">>,
                 !.rtype = "Literal", !.hasComments = TRUE,
                 !.comments = CommentValue(<<TypeLine>>)]

\*   /** @type {w} @const */ app.Widget.COUNT = 5;
StaticConst ==
  [NoStmt EXCEPT !.type = "Assignment", !.left = Append(WidgetPath, "COUNT"),
                 !.rtype = "Literal", !.hasComments = TRUE,
                 !.comments = CommentValue(<<TextLine, TypeLine, ConstLine>>)]

\*   /** @private */ app.Widget.cache_ = 1;
StaticPrivate ==
  [NoStmt EXCEPT !.type = "Assignment", !.left = Append(WidgetPath, "cache_"),
                 !.rtype = "Literal", !.hasComments = TRUE,
                 !.comments = CommentValue(<<TypeLine, PrivateLine>>)]

\*   /** @private */ app.Widget.other_ = 2;
StaticPrivateOther ==
  [NoStmt EXCEPT !.type = "Assignment", !.left = Append(WidgetPath, "other_"),
                 !.rtype = "Literal", !.hasComments = TRUE,
                 !.comments = CommentValue(<<TypeLine, PrivateLine>>)]

\*   /** @private */ app.Widget.default_ = app.Widget.COUNT;
StaticPrivateRef ==
  [NoStmt EXCEPT !.type = "Assignment", !.left = Append(WidgetPath, "default_"),
                 !.rtype = "MemberExpression",
                 !.refs = <<Append(WidgetPath, "COUNT")>>, !.hasComments = TRUE,
                 !.comments = CommentValue(<<PrivateLine, ConstLine>>)]

\*   app.Widget.create = function(x, y) {
\*     app.Widget.base(this, 'create', x, y);
\*     app.Widget.base(this, name, x);
\*     return app.Widget.cache_;
\*   };
StaticFunction ==
  [NoStmt EXCEPT !.type = "Assignment", !.left = Append(WidgetPath, "create"),
                 !.rtype = "FunctionExpression",
                 !.refs = <<Append(WidgetPath, "cache_")>>,
                 !.calls = <<[callee |-> Append(WidgetPath, "base"),
                              argTypes |-> <<"ThisExpression", "Literal",
                                             "Identifier", "Identifier">>,
                              args |-> <<"this", "create", "x", "y">>],
                             [callee |-> Append(WidgetPath, "base"),
                              argTypes |-> <<"ThisExpression", "Identifier",
                                             "Identifier">>,
                              args |-> <<"this", "name", "x">>]>>,
                 !.hasComments = TRUE,
                 !.comments = CommentValue(<<TextLine>>)]

\*   goog.inherits(app.Widget, app.Base);
Inherits ==
  [NoStmt EXCEPT !.type = "Call", !.callee = <<"goog", "inherits">>,
                 !.args = <<WidgetPath, BasePath>>]

\*   goog.addSingletonGetter(app.Widget);
Singleton ==
  [NoStmt EXCEPT !.type = "Call", !.callee = <<"goog", "addSingletonGetter">>,
                 !.args = <<WidgetPath>>]

\*   use(app.Widget.cache_);
OtherCall ==
  [NoStmt EXCEPT !.type = "Call", !.callee = <<"use">>,
                 !.args = <<Append(WidgetPath, "cache_")>>]

\*   /** @interface */ app.IThing = function() {};
InterfaceThing ==
  [NoStmt EXCEPT !.type = "Assignment", !.left = ThingPath,
                 !.rtype = "FunctionExpression", !.hasComments = TRUE,
                 !.comments = CommentValue(<<TextLine, InterfaceLine>>)]

\*   /** @param {w} w */ app.IThing.prototype.run;
InterfaceMember ==
  [NoStmt EXCEPT !.type = "Member",
                 !.left = ThingPath \o <<"prototype", "run">>,
                 !.hasComments = TRUE,
                 !.comments = CommentValue(<<TextLine, ParamLine>>)]

\*   /** @private */ app.util.store_ = 1;
NamespacePrivate ==
  [NoStmt EXCEPT !.type = "Assignment", !.left = Append(UtilPath, "store_"),
                 !.rtype = "Literal", !.hasComments = TRUE,
                 !.comments = CommentValue(<<TypeLine, PrivateLine>>)]

\*   app.util.limit = app.util.store_;
NamespacePublic ==
  [NoStmt EXCEPT !.type = "Assignment", !.left = Append(UtilPath, "limit"),
                 !.rtype = "MemberExpression",
                 !.refs = <<Append(UtilPath, "store_")>>, !.hasComments = TRUE,
                 !.comments = CommentValue(<<TypeLine>>)]

\* The statements that may follow the opening declaration.
Templates ==
  {CtorWidget, CtorBase, ProtoFunction, ProtoAlias, ProtoLiteral, StaticConst,
   StaticPrivate, StaticPrivateOther, StaticPrivateRef, StaticFunction,
   Inherits, Singleton, OtherCall, InterfaceMember, NamespacePrivate}

\* The declarations a program may open with.
Declarations ==
  {CtorWidget, CtorBase, InterfaceThing, NamespacePrivate, NamespacePublic}

\* The statements numbered by their position.
Numbered(stmts) == [k \in 1..Len(stmts) |-> [stmts[k] EXCEPT !.id = k]]

World ==
  [body |-> programBody, nodes |-> classNodes, registry |-> registry,
   warnings |-> warnings, thrown |-> thrown, exported |-> exported,
   nextId |-> nextId, order |-> <<>>]

\* The state after the call: what the call left behind, and its log entry.
Leaves(w, entry) ==
  /\ programBody' = w.body
  /\ classNodes' = w.nodes
  /\ registry' = w.registry
  /\ warnings' = w.warnings
  /\ thrown' = w.thrown
  /\ exported' = w.exported
  /\ nextId' = w.nextId
  /\ callLog' = Append(callLog, entry)
  /\ passOrder' = w.order
  /\ UNCHANGED <<impl, original>>
  /\ UNCHANGED <<splitVars, runVars, provideVars, exportVars, binaryVars>>

\* A parsed program and an empty registry.
ClassInit ==
  /\ impl \in {"scripts", "utils"}
  /\ \E first \in Declarations :
       \E rest \in SeqsUpTo(Templates, MaxStmts) :
         original = Numbered(<<first>> \o rest)
  /\ programBody = original
  /\ classNodes = <<>>
  /\ registry = <<>>
  /\ warnings = <<>>
  /\ thrown = "none"
  /\ exported = <<>>
  /\ nextId = Len(original) + 1
  /\ callLog = <<>>
  /\ passOrder = <<>>

\* A constructor declaration: a documented function bound to a namespace path.
IsConstructorDeclaration(stmt) ==
  /\ stmt.type = "Assignment"
  /\ stmt.rtype = "FunctionExpression"
  /\ IsMemberExpression(stmt.left)
  /\ stmt.hasComments
  /\ Contains(stmt.comments, "@constructor")

IsInterfaceDeclaration(stmt) ==
  /\ stmt.type = "Assignment"
  /\ stmt.rtype = "FunctionExpression"
  /\ IsMemberExpression(stmt.left)
  /\ stmt.hasComments
  /\ Contains(stmt.comments, "@interface")

LogEntry(fn, stmt, moduleName) ==
  [fn |-> fn, id |-> stmt.id, left |-> stmt.left, moduleName |-> moduleName,
   found |-> getClassNode(registry, moduleName) # 0]

CanCall == thrown = "none" /\ Len(callLog) < MaxCalls /\ ~loaded

\* The transform calls convertClass(root, path, moduleName) for a constructor
\* declaration of the program, moduleName being the path it is bound to.
ConvertClass ==
  /\ CanCall
  /\ \E k \in 1..Len(programBody) :
       LET moduleName == programBody[k].left IN
       /\ IsConstructorDeclaration(programBody[k])
       /\ Leaves(convertClass(World, programBody[k].id, moduleName, impl),
                 LogEntry("convertClass", programBody[k], moduleName))

\* The transform calls convertInterface(root, path, moduleName); only
\* part_002 has the function.
ConvertInterface ==
  /\ CanCall
  /\ impl = "scripts"
  /\ \E k \in 1..Len(programBody) :
       LET moduleName == programBody[k].left IN
       /\ IsInterfaceDeclaration(programBody[k])
       /\ Leaves(convertInterface(World, programBody[k].id, moduleName),
                 LogEntry("convertInterface", programBody[k], moduleName))

\* The transform calls convertNamespaceExpression(root, path, moduleName) for
\* a member of a namespace; only part_002 has the function.
ConvertNamespaceExpression ==
  /\ CanCall
  /\ impl = "scripts"
  /\ \E k \in 1..Len(programBody) : \E moduleName \in ModuleNames :
       /\ programBody[k].type \in {"Assignment", "Member"}
       /\ programBody[k].hasComments
       /\ Len(programBody[k].left) = Len(moduleName) + 1
       /\ HasPrefix(programBody[k].left, moduleName)
       /\ getClassNode(registry, moduleName) = 0
       /\ Leaves(convertNamespaceExpression(World, programBody[k].id, moduleName),
                 LogEntry("convertNamespaceExpression", programBody[k], moduleName))

\* ------------------------------------------------- the converted program run
\* The declarations of the module-scoped binding moveSingletonToClass wrote.
InstanceDeclarations ==
  SelectSeq(programBody,
            LAMBDA st : st.type = "VariableDeclaration" /\ st.name = "instance")

\* The getInstance bodies of the classes in the tree.
GetInstanceBodies ==
  UNION {{classNodes[n].methods[m].body :
            m \in {j \in 1..Len(classNodes[n].methods) :
                     classNodes[n].methods[j].key = "getInstance"}} :
         n \in NodesInTree(World)}

\* The module is loaded: its top-level statements run.  `let instance;`
\* leaves the binding undefined, `const instance = new <Class>();` runs the
\* constructor.
LoadModule ==
  /\ thrown = "none"
  /\ ~loaded
  /\ InstanceDeclarations # <<>>
  /\ loaded' = TRUE
  /\ LET news == Len(SelectSeq(InstanceDeclarations,
                               LAMBDA st : st.rtype = "NewExpression"))
     IN /\ constructed' = constructed + news
        /\ instance' = IF InstanceDeclarations[Len(InstanceDeclarations)].rtype
                           = "NewExpression"
                        THEN constructed + news ELSE 0
  /\ UNCHANGED returned
  /\ UNCHANGED <<splitVars, classVars, provideVars, exportVars, binaryVars>>

\* A call of <Class>.getInstance() on the loaded module: the statements of
\* the body moveSingletonToClass built run in order.
GetInstanceCall ==
  /\ loaded
  /\ Len(returned) < MaxGets
  /\ \E body \in GetInstanceBodies :
       LET constructs ==
             /\ \E k \in 1..Len(body) : body[k] = "IfNotInstanceAssignNew"
             /\ instance = 0
           after == IF constructs THEN constructed + 1 ELSE instance
       IN /\ constructed' = IF constructs THEN constructed + 1 ELSE constructed
          /\ instance' = after
          /\ returned' = Append(returned, after)
  /\ UNCHANGED loaded
  /\ UNCHANGED <<splitVars, classVars, provideVars, exportVars, binaryVars>>

ClassNext ==
  \/ ConvertClass
  \/ ConvertInterface
  \/ ConvertNamespaceExpression
  \/ LoadModule
  \/ GetInstanceCall

\* ------------------------------------------- the functions called directly
\* The names of the callbacks of the passes of convertClass.
PassNames ==
  {"convertPrototypeAssignment", "convertStaticProperty",
   "moveSingletonToClass", "moveInheritsToClass"}

\* registerClassNode(path, node) called for a constructor or interface the
\* program declares, with a class node of that name.
RegisterClassNode ==
  /\ CanCall
  /\ \E k \in 1..Len(programBody) :
       LET moduleName == programBody[k].left IN
       /\ IsConstructorDeclaration(programBody[k])
            \/ IsInterfaceDeclaration(programBody[k])
       /\ Leaves(registerClassNode(
                [World EXCEPT !.nodes =
                   Append(@, [NoClass EXCEPT !.name = moduleName[Len(moduleName)]])],
                moduleName, Len(classNodes) + 1),
              LogEntry("registerClassNode", NoStmt, moduleName))

\* convertClass 471-477: the callback of the prototype pass on one of the
\* paths its filter matches.
PrototypeCallback ==
  /\ CanCall
  /\ \E k \in 1..Len(programBody) : \E moduleName \in ModuleNames :
       /\ IsPrototypeAssignment(programBody[k], moduleName)
       /\ Leaves(convertPrototypeAssignment(World, programBody[k].id, moduleName),
                 LogEntry("convertPrototypeAssignment", programBody[k], moduleName))

\* convertClass 487-493: the callback of the static pass.
StaticCallback ==
  /\ CanCall
  /\ \E k \in 1..Len(programBody) : \E moduleName \in ModuleNames :
       /\ IsStaticAssignment(programBody[k], moduleName)
       /\ Leaves(IF impl = "utils"
                 THEN convertStaticProperty_utils(World, programBody[k].id, moduleName)
                 ELSE convertStaticProperty(World, programBody[k].id, moduleName),
                 LogEntry("convertStaticProperty", programBody[k], moduleName))

\* convertClass 495-499: the callback of the singleton pass.
SingletonCallback ==
  /\ CanCall
  /\ \E k \in 1..Len(programBody) : \E moduleName \in ModuleNames :
       /\ IsSingletonCall(programBody[k], moduleName)
       /\ Leaves(IF impl = "utils"
                 THEN moveSingletonToClass_utils(World, programBody[k].id, moduleName)
                 ELSE moveSingletonToClass(World, programBody[k].id, moduleName),
                 LogEntry("moveSingletonToClass", programBody[k], moduleName))

\* convertClass 501-505: the callback of the inherits pass.
InheritsCallback ==
  /\ CanCall
  /\ \E k \in 1..Len(programBody) : \E moduleName \in ModuleNames :
       /\ IsInheritsCall(programBody[k], moduleName)
       /\ Leaves(moveInheritsToClass(World, programBody[k].id, moduleName),
                 LogEntry("moveInheritsToClass", programBody[k], moduleName))

CallsNext ==
  \/ ConvertClass
  \/ ConvertInterface
  \/ RegisterClassNode
  \/ PrototypeCallback
  \/ StaticCallback
  \/ SingletonCallback
  \/ InheritsCallback

\* ------------------------------------------- replaceProvidesWithModules
\* A statement of a program that opens with goog.provide calls: an
\* expression statement  callee(arg)  with or without a comment.
NoProvideStmt == [id |-> 0, callee |-> <<>>, arg |-> "", hasComments |-> FALSE]

GoogProvide == <<"goog", "provide">>
GoogModule  == <<"goog", "module">>
DeclareLegacyNamespace == <<"goog", "module", "declareLegacyNamespace">>

\* createFindCallFn('goog.provide')
IsProvideCall(stmt) == stmt.callee = GoogProvide

\* Lines 313-323 read as a whole: the marker is put in front of the body
\* first and the module declaration in front of the marker.
UnshiftModuleThenLegacy(body, idx, moduleStmt, legacyStmt) ==
  IF idx = 0 THEN <<legacyStmt, moduleStmt>> \o body ELSE <<moduleStmt>> \o body

\* Lines 313-323: for the first call programBody.unshift(<marker>), then for
\* every call programBody.unshift(<goog.module(args)>).
UnshiftLegacyThenModule(body, idx, moduleStmt, legacyStmt) ==
  <<moduleStmt>> \o (IF idx = 0 THEN <<legacyStmt>> \o body ELSE body)

\* The callback with the call left as it is: goog.provide(args) is put in
\* front of the body in place of goog.module(args).
ProvideCallbackKeepingProvide(r, id, idx) ==
  [r EXCEPT
     !.body = UnshiftLegacyThenModule(
                RemoveAt(@, StmtIndex(@, id)), idx,
                [@[StmtIndex(@, id)] EXCEPT !.id = r.nextId + 1],
                [NoProvideStmt EXCEPT !.callee = DeclareLegacyNamespace,
                                      !.id = r.nextId]),
     !.modules = Append(@, r.body[StmtIndex(r.body, id)].arg),
     !.nextId = @ + 2]

\* The forEach callback (lines 306-323) on the call with the given id, idx
\* being its index in the collection.
ProvideCallback(r, id, idx) ==
  [r EXCEPT
     !.body = UnshiftLegacyThenModule(
                RemoveAt(@, StmtIndex(@, id)), idx,
                [@[StmtIndex(@, id)] EXCEPT !.callee = GoogModule,
                                           !.id = r.nextId + 1],
                [NoProvideStmt EXCEPT !.callee = DeclareLegacyNamespace,
                                      !.id = r.nextId]),
     !.modules = Append(@, r.body[StmtIndex(r.body, id)].arg),
     !.nextId = @ + 2]

\* A forEach that gives every callback the index 0.
RECURSIVE ProvidesForEachAllFirst(_, _, _)
ProvidesForEachAllFirst(r, ids, idx) ==
  IF ids = <<>> THEN r
  ELSE ProvidesForEachAllFirst(ProvideCallback(r, Head(ids), 0), Tail(ids), 0)

RECURSIVE ProvidesForEach(_, _, _)
ProvidesForEach(r, ids, idx) ==
  IF ids = <<>> THEN r
  ELSE ProvidesForEach(ProvideCallback(r, Head(ids), idx), Tail(ids), idx + 1)

\* replaceProvidesWithModules (part_002 302-325): the body it leaves and the
\* list it returns.
replaceProvidesWithModules(body) ==
  ProvidesForEach([body |-> body, modules |-> <<>>, nextId |-> Len(body) + 1],
                  FindIds(body, IsProvideCall), 0)

\* The statements the programs are made of.
ProvideWidget == [NoProvideStmt EXCEPT !.callee = GoogProvide, !.arg = "app.Widget"]
ProvideBase   == [NoProvideStmt EXCEPT !.callee = GoogProvide, !.arg = "app.Base",
                                       !.hasComments = TRUE]
RequireThing  == [NoProvideStmt EXCEPT !.callee = <<"goog", "require">>,
                                       !.arg = "app.IThing"]
UseStrict     == [NoProvideStmt EXCEPT !.callee = <<"use">>, !.arg = "strict"]

ProvideTemplates == {ProvideWidget, ProvideBase, RequireThing, UseStrict}

\* A parsed program of at most MaxProvideStmts statements.
ProvideInit ==
  /\ \E stmts \in SeqsUpTo(ProvideTemplates, MaxProvideStmts) :
       provideOriginal = Numbered(stmts)
  /\ provideBody = provideOriginal
  /\ modules = <<>>
  /\ providePc = "parsed"

\* One call of replaceProvidesWithModules(root).
ReplaceProvidesWithModules ==
  /\ providePc = "parsed"
  /\ provideBody' = replaceProvidesWithModules(provideBody).body
  /\ modules' = replaceProvidesWithModules(provideBody).modules
  /\ providePc' = "done"
  /\ UNCHANGED provideOriginal
  /\ UNCHANGED <<splitVars, classVars, runVars, exportVars, binaryVars>>

ProvideNext == ReplaceProvidesWithModules

\* ---------------------- replaceProvidesWithModules, src/src/utils/classes.js
\* addLegacyNamespace(path.parent) of ./goog: the marker is inserted
\* immediately before the statement of the first call.
addLegacyNamespace(r, k) ==
  [r EXCEPT !.body = InsertAt(@, k, [NoProvideStmt EXCEPT
                                       !.callee = DeclareLegacyNamespace,
                                       !.id = r.nextId]),
            !.nextId = @ + 1]

\* The forEach callback (classes.js 343-352) on the call with the given id:
\* the call is replaced in place, and the first call gets the marker.
ProvideCallback_utils(r, id, idx) ==
  LET k == StmtIndex(r.body, id)
      replaced == [r EXCEPT !.body[k].callee = GoogModule,
                            !.modules = Append(@, r.body[k].arg)]
  IN IF idx = 0 THEN addLegacyNamespace(replaced, k) ELSE replaced

RECURSIVE ProvidesForEach_utils(_, _, _)
ProvidesForEach_utils(r, ids, idx) ==
  IF ids = <<>> THEN r
  ELSE ProvidesForEach_utils(ProvideCallback_utils(r, Head(ids), idx),
                             Tail(ids), idx + 1)

\* replaceProvidesWithModules (classes.js 340-355): the body it leaves and
\* the list it returns.
replaceProvidesWithModules_utils(body) ==
  ProvidesForEach_utils([body |-> body, modules |-> <<>>,
                         nextId |-> Len(body) + 1],
                        FindIds(body, IsProvideCall), 0)

\* One call of replaceProvidesWithModules(root) of part_002.
ReplaceProvidesScripts ==
  /\ impl = "scripts"
  /\ ReplaceProvidesWithModules

\* One call of replaceProvidesWithModules(root) of classes.js.
ReplaceProvidesUtils ==
  /\ impl = "utils"
  /\ providePc = "parsed"
  /\ provideBody' = replaceProvidesWithModules_utils(provideBody).body
  /\ modules' = replaceProvidesWithModules_utils(provideBody).modules
  /\ providePc' = "done"
  /\ UNCHANGED provideOriginal
  /\ UNCHANGED <<splitVars, classVars, runVars, exportVars, binaryVars>>

ModulesNext == ReplaceProvidesScripts \/ ReplaceProvidesUtils

\* ------------------------------------------------ the exportProperty transform
\* Identifier names are token sequences: <<"render", "_">> is render_.
\* A statement of the program body:
\*   type        "Assignment"  <object>.<property> = <right>   (computed:
\*               <object>[<property>] = <right>)
\*               "GEP"  goog.exportProperty(<target>, '<exportName>', <arg 2>)
\*               "Removed"  the placeholder of a removed call
\*   thisRefs    the names n of the member expressions this.n inside
\*   memberRefs  the qualified member expressions inside, [object, property];
\*               the first one of a GEP statement is its third argument
\*   fnType      GEP: the node type of the third argument
\*   commentType "none", or the type of the last comment attached
NoExportStmt ==
  [id |-> 0, type |-> "", object |-> <<>>, property |-> <<>>,
   computed |-> FALSE, thisRefs |-> <<>>, memberRefs |-> <<>>,
   target |-> <<>>, exportName |-> <<>>, fnType |-> "",
   commentType |-> "none", comment |-> <<>>]

\* isGEPCall (part_000 32-34)
isGEPCall(stmt) == stmt.type = "GEP"

\* get(node, 'arguments.0.property.name') === 'prototype'
TargetsPrototype(stmt) ==
  stmt.target # <<>> /\ stmt.target[Len(stmt.target)] = <<"prototype">>

\* node.arguments[2].property.name  throws when the third argument has no
\* property (line 44).
ExportableCallThrows(stmt) ==
  isGEPCall(stmt) /\ TargetsPrototype(stmt) /\ stmt.fnType # "MemberExpression"

\* isExportableCall (part_000 41-49), for a call it does not throw on
isExportableCall(stmt) ==
  /\ isGEPCall(stmt)
  /\ TargetsPrototype(stmt)
  /\ ~ExportableCallThrows(stmt)
  /\ stmt.exportName # <<>>
  /\ stmt.memberRefs[1].property # <<>>
  /\ \/ stmt.exportName = stmt.memberRefs[1].property
     \/ Append(stmt.exportName, "_") = stmt.memberRefs[1].property

\* name.replace(/_$/, '')
StripUnderscore(name) ==
  IF name # <<>> /\ name[Len(name)] = "_"
  THEN SubSeq(name, 1, Len(name) - 1) ELSE name

\* renamePrivateFn (part_000 57-68): what it does to the tree; it returns
\* StripUnderscore(name).
renamePrivateFn(body, name) ==
  IF StripUnderscore(name) # name
  THEN [k \in 1..Len(body) |->
          [body[k] EXCEPT !.thisRefs =
             [j \in 1..Len(@) |->
                IF @[j] = name THEN StripUnderscore(name) ELSE @[j]]]]
  ELSE body

\* '\n * @export\n '
ExportTagLines == <<"\n", " ", "*", " ", "@export", "\n", " ">>

\* '\n * @protected'
ProtectedTagLine == <<"\n", " ", "*", " ", "@protected">>

\* Lines 88-96: @export is added unless present, @protected is removed.
ExportComment(text) ==
  RemoveFirst(IF Contains(text, "@export") THEN text
              ELSE IF text # <<>> /\ IsWhitespace(text[Len(text)])
              THEN TrimEnd(text) \o ExportTagLines
              ELSE text,
              ProtectedTagLine)

\* Line 100: prev.expression.left.property.name = renamePrivateFn(root, ...)
MakePublic(body, j) ==
  [renamePrivateFn(body, body[j].property) EXCEPT
     ![j].property = StripUnderscore(@)]

\* The callback of the first forEach (lines 79-114) on the exportable call
\* with the given id.
ExportCallback(r, id) ==
  LET k == StmtIndex(r.body, id) IN
  IF k <= 1 THEN r
  ELSE IF r.body[k - 1].commentType = "none" THEN Throw(r, "TypeError")
  ELSE IF r.body[k - 1].commentType # "CommentBlock" THEN r
  ELSE IF Contains(ExportComment(r.body[k - 1].comment), "@private")
  THEN IF r.body[k - 1].type # "Assignment" THEN Throw(r, "TypeError")
       ELSE [r EXCEPT !.body =
               [MakePublic(@, k - 1) EXCEPT
                  ![k - 1].comment =
                     RemoveFirst(ExportComment(r.body[k - 1].comment),
                                 PrivateTagLine),
                  ![k].type = "Removed"]]
  ELSE [r EXCEPT !.body[k - 1].comment = ExportComment(@),
                 !.body[k].type = "Removed"]

RECURSIVE ExportableForEach(_, _)
ExportableForEach(r, ids) ==
  IF ids = <<>> \/ r.thrown # "none" THEN r
  ELSE ExportableForEach(ExportCallback(r, Head(ids)), Tail(ids))

\* The callback of the second forEach (lines 116-120): a[b] = c
GepToAssignment(stmt) ==
  IF isGEPCall(stmt)
  THEN [stmt EXCEPT !.type = "Assignment", !.object = stmt.target,
                    !.property = stmt.exportName, !.computed = TRUE]
  ELSE stmt

\* Lines 116-122: the second forEach, and the placeholders cut from the
\* printed source.
FinishExport(r) ==
  [r EXCEPT !.body =
     SelectSeq([k \in 1..Len(@) |-> GepToAssignment(@[k])],
               LAMBDA stmt : stmt.type # "Removed")]

\* The transform (part_000 76-123) on a program body.
exportProperty(body) ==
  IF \E k \in 1..Len(body) : ExportableCallThrows(body[k])
  THEN [body |-> body, thrown |-> "TypeError"]
  ELSE Then(ExportableForEach([body |-> body, thrown |-> "none"],
                              FindIds(body, isExportableCall)),
            FinishExport)

WidgetPrototype == <<<<"app">>, <<"Widget">>, <<"prototype">>>>
RenderPrivate   == <<"render", "_">>
ProtectedLine   == <<" ", "*", " ", "@protected">>

\* The statements the programs are made of.
\*   /** w  @private */
\*   app.Widget.prototype.render_ = function() { this.render_(); };
DeclPrivate ==
  [NoExportStmt EXCEPT !.type = "Assignment", !.object = WidgetPrototype,
                       !.property = RenderPrivate, !.thisRefs = <<RenderPrivate>>,
                       !.commentType = "CommentBlock",
                       !.comment = CommentValue(<<TextLine, PrivateLine>>)]

\*   /** w  @protected */
\*   app.Widget.prototype.render_ = function() { this.render_(); };
DeclProtected ==
  [DeclPrivate EXCEPT !.comment = CommentValue(<<TextLine, ProtectedLine>>)]

\*   /** w */
\*   app.Widget.prototype.draw = function() {
\*     this.render_(); app.Widget.prototype.render_.call(this); };
DeclDraw ==
  [NoExportStmt EXCEPT !.type = "Assignment", !.object = WidgetPrototype,
                       !.property = <<"draw">>, !.thisRefs = <<RenderPrivate>>,
                       !.memberRefs = <<[object |-> WidgetPrototype,
                                         property |-> RenderPrivate]>>,
                       !.commentType = "CommentBlock",
                       !.comment = CommentValue(<<TextLine>>)]

\*   app.Widget.prototype.size = 1;
DeclPlain ==
  [NoExportStmt EXCEPT !.type = "Assignment", !.object = WidgetPrototype,
                       !.property = <<"size">>]

\*   goog.exportProperty(app.Widget.prototype, 'render',
\*                       app.Widget.prototype.render_);
GepRender ==
  [NoExportStmt EXCEPT !.type = "GEP", !.target = WidgetPrototype,
                       !.exportName = <<"render">>, !.fnType = "MemberExpression",
                       !.memberRefs = <<[object |-> WidgetPrototype,
                                         property |-> RenderPrivate]>>]

\*   goog.exportProperty(app.Widget.prototype, 'draw', app.Widget.prototype.draw);
GepDraw ==
  [GepRender EXCEPT !.exportName = <<"draw">>,
                    !.memberRefs = <<[object |-> WidgetPrototype,
                                      property |-> <<"draw">>]>>]

\*   goog.exportProperty(app.Widget, 'create', app.Widget.create);
GepStatic ==
  [NoExportStmt EXCEPT !.type = "GEP", !.target = <<<<"app">>, <<"Widget">>>>,
                       !.exportName = <<"create">>, !.fnType = "MemberExpression",
                       !.memberRefs = <<[object |-> <<<<"app">>, <<"Widget">>>>,
                                         property |-> <<"create">>]>>]

\*   /** w */
\*   app.Other.prototype.draw = function() { this.render_(); };
DeclOther ==
  [NoExportStmt EXCEPT !.type = "Assignment",
                       !.object = <<<<"app">>, <<"Other">>, <<"prototype">>>>,
                       !.property = <<"draw">>, !.thisRefs = <<RenderPrivate>>,
                       !.commentType = "CommentBlock",
                       !.comment = CommentValue(<<TextLine>>)]

\*   goog.exportProperty(app.Widget.prototype, 'render', render);
GepIdentifier ==
  [NoExportStmt EXCEPT !.type = "GEP", !.target = WidgetPrototype,
                       !.exportName = <<"render">>, !.fnType = "Identifier"]

ExportTemplates ==
  {DeclPrivate, DeclProtected, DeclDraw, DeclPlain, DeclOther, GepRender,
   GepDraw, GepStatic, GepIdentifier}

\* A parsed program of at most MaxExportStmts statements.
ExportInit ==
  /\ \E stmts \in SeqsUpTo(ExportTemplates, MaxExportStmts) :
       exportOriginal = Numbered(stmts)
  /\ exportBody = exportOriginal
  /\ exportThrown = "none"
  /\ exportPc = "parsed"

\* One run of the transform on the program.
ExportPropertyTransform ==
  /\ exportPc = "parsed"
  /\ exportBody' = exportProperty(exportBody).body
  /\ exportThrown' = exportProperty(exportBody).thrown
  /\ exportPc' = "done"
  /\ UNCHANGED exportOriginal
  /\ UNCHANGED <<splitVars, classVars, runVars, provideVars, binaryVars>>

ExportNext == ExportPropertyTransform

\* ------------------------------------- the isDef and isDefAndNotNull transforms
\* An expression statement of the program:  !...!<expression>;
\*   nots      the number of unary "!" around the expression
\*   type      "CallExpression"    goog.<callee>(<argument>)
\*             "BinaryExpression"  <argument> <operator> <right>
\*   argument  the identifier given to the call: u, n or v
NoBinaryStmt ==
  [nots |-> 0, type |-> "", callee |-> "", argument |-> "", operator |-> "",
   right |-> ""]

\* The filter the isdef transform gives callToBinary.
IsDefFilter == "isDef"

\* The options the isdef transform gives callToBinary.
IsDefOptions ==
  [expression |-> "!==", notExpression |-> "===", rightSide |-> "undefined"]

\* The filter the isdefandnotnull transform gives callToBinary.
IsDefAndNotNullFilter == "isDefAndNotNull"

\* Options that compare strictly against null.
IsDefAndNotNullStrictOptions ==
  [expression |-> "!==", notExpression |-> "===", rightSide |-> "null"]

\* The options the isdefandnotnull transform gives callToBinary.
IsDefAndNotNullOptions ==
  [expression |-> "!=", notExpression |-> "==", rightSide |-> "null"]

\* callToBinary on one statement: a call the filter matches becomes the
\* comparison of its argument with the right side; a "!" directly around the
\* call is taken into the comparison, which then uses the negated operator.
CallToBinaryStmt(stmt, filter, options) ==
  IF stmt.type = "CallExpression" /\ stmt.callee = filter
  THEN [stmt EXCEPT !.type = "BinaryExpression", !.callee = "",
                    !.operator = IF stmt.nots > 0 THEN options.notExpression
                                 ELSE options.expression,
                    !.right = options.rightSide,
                    !.nots = IF stmt.nots > 0 THEN stmt.nots - 1 ELSE 0]
  ELSE stmt

\* callToBinary(file, filter, options) on the program body.
callToBinary(body, filter, options) ==
  [k \in 1..Len(body) |-> CallToBinaryStmt(body[k], filter, options)]

\* The value an identifier of the program holds when the program runs.
ValueOf(name) ==
  CASE name = "u" -> "undefined"
    [] name = "n" -> "null"
    [] name = "undefined" -> "undefined"
    [] name = "null" -> "null"
    [] OTHER -> "object"

\* a === b  on the values undefined, null and one object
StrictEquals(a, b) == a = b

\* a == b  on the same values: null and undefined equal each other
LooseEquals(a, b) == a = b \/ {a, b} = {"undefined", "null"}

\* The value of goog.<callee>(val).
GoogCall(callee, val) ==
  CASE callee = "isDef" -> val # "undefined"
    [] callee = "isDefAndNotNull" -> val \notin {"undefined", "null"}
    [] OTHER -> val = "null"

\* The value of a comparison.
Compare(operator, a, b) ==
  CASE operator = "===" -> StrictEquals(a, b)
    [] operator = "!==" -> ~StrictEquals(a, b)
    [] operator = "==" -> LooseEquals(a, b)
    [] OTHER -> ~LooseEquals(a, b)

\* The truth value of an expression statement when the program runs.
TruthValue(stmt) ==
  LET inner == IF stmt.type = "CallExpression"
               THEN GoogCall(stmt.callee, ValueOf(stmt.argument))
               ELSE Compare(stmt.operator, ValueOf(stmt.argument),
                            ValueOf(stmt.right))
  IN IF stmt.nots % 2 = 0 THEN inner ELSE ~inner

\* The statements the programs are made of:  goog.isDef(u);  !goog.isDef(u);
\* !!goog.isDef(u);  and the same of isDefAndNotNull and isNull, of n and v.
BinaryTemplates ==
  {[NoBinaryStmt EXCEPT !.type = "CallExpression", !.nots = nots,
                        !.callee = callee, !.argument = argument] :
     nots \in 0..2, callee \in {"isDef", "isDefAndNotNull", "isNull"},
     argument \in {"u", "n", "v"}}

\* A parsed file given to one of the two transforms.
BinaryInit ==
  /\ transform \in {"isdef", "isdefandnotnull"}
  /\ binaryOriginal \in SeqsUpTo(BinaryTemplates, MaxBinaryStmts)
  /\ binaryBody = binaryOriginal
  /\ binaryPc = "parsed"

\* The isdef transform.
IsDefTransform ==
  /\ binaryPc = "parsed"
  /\ transform = "isdef"
  /\ binaryBody' = callToBinary(binaryBody, IsDefFilter, IsDefOptions)
  /\ binaryPc' = "done"
  /\ UNCHANGED <<transform, binaryOriginal>>
  /\ UNCHANGED <<splitVars, classVars, runVars, provideVars, exportVars>>

\* The isdefandnotnull transform.
IsDefAndNotNullTransform ==
  /\ binaryPc = "parsed"
  /\ transform = "isdefandnotnull"
  /\ binaryBody' = callToBinary(binaryBody, IsDefAndNotNullFilter,
                                IsDefAndNotNullOptions)
  /\ binaryPc' = "done"
  /\ UNCHANGED <<transform, binaryOriginal>>
  /\ UNCHANGED <<splitVars, classVars, runVars, provideVars, exportVars>>

BinaryNext == IsDefTransform \/ IsDefAndNotNullTransform

\* ------------------------------------------------------------- second runs
\* A transform run again on the program its first run left behind.

\* The exportProperty transform on its own output.
ExportPropertyAgain ==
  /\ exportPc = "done"
  /\ exportThrown = "none"
  /\ exportBody' = exportProperty(exportBody).body
  /\ exportThrown' = exportProperty(exportBody).thrown
  /\ exportPc' = "rerun"
  /\ UNCHANGED exportOriginal
  /\ UNCHANGED <<splitVars, classVars, runVars, provideVars, binaryVars>>

\* replaceProvidesWithModules on its own output.
ReplaceProvidesAgain ==
  /\ providePc = "done"
  /\ provideBody' = replaceProvidesWithModules(provideBody).body
  /\ modules' = replaceProvidesWithModules(provideBody).modules
  /\ providePc' = "rerun"
  /\ UNCHANGED provideOriginal
  /\ UNCHANGED <<splitVars, classVars, runVars, exportVars, binaryVars>>

\* The isdef or isdefandnotnull transform on its own output.
CallToBinaryAgain ==
  /\ binaryPc = "done"
  /\ binaryBody' =
       IF transform = "isdef"
       THEN callToBinary(binaryBody, IsDefFilter, IsDefOptions)
       ELSE callToBinary(binaryBody, IsDefAndNotNullFilter, IsDefAndNotNullOptions)
  /\ binaryPc' = "rerun"
  /\ UNCHANGED <<transform, binaryOriginal>>
  /\ UNCHANGED <<splitVars, classVars, runVars, provideVars, exportVars>>

\* convertClass on every constructor declaration of the given ids, one after
\* the other.
RECURSIVE ConvertEach(_, _, _)
ConvertEach(w, ids, variant) ==
  IF ids = <<>> \/ w.thrown # "none" THEN w
  ELSE ConvertEach(convertClass(w, Head(ids),
                                w.body[StmtIndex(w.body, Head(ids))].left, variant),
                   Tail(ids), variant)

\* The first run converted every constructor declaration of the program.
EveryClassConverted ==
  /\ thrown = "none"
  /\ callLog # <<>>
  /\ \A k \in 1..Len(original) :
       IsConstructorDeclaration(original[k]) =>
         \E i \in 1..Len(callLog) :
           callLog[i].fn = "convertClass" /\ callLog[i].id = original[k].id

\* The class conversion on its own output: convertClass for every
\* constructor declaration the output holds.
ConvertClassAgain ==
  /\ EveryClassConverted
  /\ callLog[Len(callLog)].fn # "rerun"
  /\ LET found == FindIds(programBody, IsConstructorDeclaration)
     IN Leaves(ConvertEach(World, found, impl),
               [fn |-> "rerun", id |-> 0, left |-> <<>>, moduleName |-> <<>>,
                found |-> found # <<>>])

RerunNext ==
  \/ ExportPropertyTransform
  \/ ExportPropertyAgain
  \/ ReplaceProvidesWithModules
  \/ ReplaceProvidesAgain
  \/ IsDefTransform
  \/ IsDefAndNotNullTransform
  \/ CallToBinaryAgain
  \/ ConvertClass
  \/ ConvertClassAgain

\* ------------------------------------------------- class conversion claims
\* The registry holds one entry at most for each path.
RegistryKeysUnique ==
  \A i, j \in 1..Len(registry) : registry[i].path = registry[j].path => i = j

\* The calls that register a class node for their module name.
RegisteringCalls ==
  {i \in 1..Len(callLog) :
     callLog[i].fn \in {"convertClass", "convertInterface", "registerClassNode"}}

\* C3: after any sequence of convertClass, convertInterface and
\* registerClassNode calls the registry holds no two entries for one path; a
\* registration of a path that is already registered is fatal (it is the
\* last call of the run and ends it with the registry error) and adds no
\* entry: the entries are as many as the registrations of unregistered paths.
C3_RegistryUniqueDoubleRegisterFatal ==
  /\ RegistryKeysUnique
  /\ \A i \in RegisteringCalls :
       callLog[i].found => (i = Len(callLog) /\ thrown = "RegistryError")
  /\ Len(registry) = Cardinality({i \in RegisteringCalls : ~callLog[i].found})

\* C3 witness: convertClass ran on a declaration whose path was registered
\* before, and the run ended with the registry error.
C3_Witness ==
  /\ thrown = "RegistryError"
  /\ Len(callLog) = 2
  /\ callLog[1].fn = "registerClassNode"
  /\ callLog[2].fn = "convertClass"
  /\ Len(registry) = 1

AssignmentSites(name) ==
  {k \in 1..Len(original) :
     /\ original[k].type = "Assignment"
     /\ \E moduleName \in ModuleNames :
          original[k].left = Append(moduleName, name)}

\* A module-scoped binding made from a @private static property.
IsPrivateBinding(stmt) ==
  stmt.type = "VariableDeclaration" /\ stmt.name # "instance"

\* C5: the module-scoped binding made from a @private static property is a
\* const when the program assigns the path once, and a let when the program
\* assigns it twice or more.
C5_ConstWhenAssignedOnceLetOtherwise ==
  \A k \in 1..Len(programBody) :
    IsPrivateBinding(programBody[k]) =>
      /\ Cardinality(AssignmentSites(programBody[k].name)) = 1
           => programBody[k].declKind = "const"
      /\ Cardinality(AssignmentSites(programBody[k].name)) >= 2
           => programBody[k].declKind = "let"

\* C8: no instance is constructed before the first getInstance call; the
\* first call constructs one instance and every call returns that instance.
C8_SingletonConstructedOnFirstGetInstance ==
  loaded =>
    /\ returned = <<>> => constructed = 0
    /\ returned # <<>> =>
         /\ constructed = 1
         /\ \A i \in 1..Len(returned) : returned[i] = returned[1]
         /\ returned[1] # 0

\* convertClass ran to its end on the declaration of app.Widget.
WidgetConverted ==
  /\ thrown = "none"
  /\ \E i \in 1..Len(callLog) :
       callLog[i].fn = "convertClass" /\ callLog[i].moduleName = WidgetPath

\* The body holds a goog.inherits call.
HasInherits(body) ==
  \E k \in 1..Len(body) :
    body[k].type = "Call" /\ body[k].callee = <<"goog", "inherits">>

\* The class node registered for app.Widget.
WidgetClass == classNodes[getClassNode(registry, WidgetPath)]

\* C9 as stated: after convertClass on a program with class app.Widget and
\* goog.inherits(app.Widget, app.Base), no goog.inherits call is left and the
\* superclass link of the class is the identifier Base.
C9_InheritsRemovedSuperclassIsBase ==
  (WidgetConverted /\ HasInherits(original)) =>
    /\ ~HasInherits(programBody)
    /\ WidgetClass.superClass = <<"Base">>

\* C9 as amended: no goog.inherits call is left and the superclass link is
\* the parent reference of the call: app.Base as written, which reads Base
\* only when app.Base is itself converted in the same run.
C9_InheritsRemovedSuperclassIsParentReference ==
  (WidgetConverted /\ HasInherits(original)) =>
    /\ ~HasInherits(programBody)
    /\ WidgetClass.superClass =
         IF getClassNode(registry, BasePath) # 0 THEN <<"Base">> ELSE BasePath

\* C9 witness: app.Widget is converted, app.Base is not, and the superclass
\* link is app.Base.
C9_Witness ==
  /\ WidgetConverted
  /\ HasInherits(original)
  /\ ~HasInherits(programBody)
  /\ WidgetClass.superClass = BasePath

\* C10: the static property app.Widget.COUNT, assigned once with a value that
\* is no function and documented without @private, is a static get accessor
\* COUNT of the converted class that returns the value, its comment without
\* @const, and no assignment to COUNT is left in the program.
C10_StaticValueBecomesGetAccessor ==
  (/\ WidgetConverted
   /\ Cardinality({k \in 1..Len(original) :
                     original[k].left = Append(WidgetPath, "COUNT")}) = 1) =>
    /\ \E m \in 1..Len(WidgetClass.methods) :
         /\ WidgetClass.methods[m].key = "COUNT"
         /\ WidgetClass.methods[m].kind = "get"
         /\ WidgetClass.methods[m].static
         /\ WidgetClass.methods[m].rtype = "Literal"
         /\ WidgetClass.methods[m].body = <<"ReturnValue">>
         /\ ~Contains(WidgetClass.methods[m].comments, "@const")
    /\ \A k \in 1..Len(programBody) :
         programBody[k].type = "Assignment" =>
           programBody[k].left[Len(programBody[k].left)] # "COUNT"

\* ------------------------------------------- exportProperty and provide claims
\* The call at position k of the parsed program exports, by tag, the member
\* declared right before it, and the member's name ends in an underscore.
ExportsUnderscoreMember(k) ==
  /\ k > 1
  /\ isExportableCall(exportOriginal[k])
  /\ exportOriginal[k].memberRefs[1].property
       = Append(exportOriginal[k].exportName, "_")
  /\ exportOriginal[k - 1].type = "Assignment"
  /\ exportOriginal[k - 1].commentType = "CommentBlock"
  /\ exportOriginal[k - 1].object = exportOriginal[k].target
  /\ exportOriginal[k - 1].property = exportOriginal[k].memberRefs[1].property

\* The name is still declared or referred to in the output.
NameRemains(name) ==
  \E j \in 1..Len(exportBody) :
    \/ exportBody[j].type = "Assignment" /\ exportBody[j].property = name
    \/ \E i \in 1..Len(exportBody[j].thisRefs) : exportBody[j].thisRefs[i] = name
    \/ \E i \in 1..Len(exportBody[j].memberRefs) :
         exportBody[j].memberRefs[i].property = name

\* C6: when the transform exports a member whose name ends in an underscore,
\* the declaration and every reference to the member carry the name without
\* the underscore afterwards: the old name is neither declared nor referred
\* to in the output.
C6_ExportedMemberRenamedEverywhere ==
  (exportPc = "done" /\ exportThrown = "none") =>
    \A k \in 1..Len(exportOriginal) :
      ExportsUnderscoreMember(k) =>
        ~NameRemains(exportOriginal[k].memberRefs[1].property)

\* The goog.provide calls of the parsed program, in source order.
Provided == SelectSeq(provideOriginal, IsProvideCall)

\* No goog.provide call is left, and every call has a goog.module
\* declaration of its name.
ProvidesBecameModules ==
  /\ \A k \in 1..Len(provideBody) : ~IsProvideCall(provideBody[k])
  /\ \A i \in 1..Len(Provided) :
       \E k \in 1..Len(provideBody) :
         /\ provideBody[k].callee = GoogModule
         /\ provideBody[k].arg = Provided[i].arg

\* C7 as stated: every goog.provide(name) call becomes a goog.module
\* declaration of the same name, and the legacy-namespace marker stands
\* immediately before the module declaration of the first call.
C7_LegacyMarkerBeforeFirstModule ==
  providePc = "done" =>
    /\ ProvidesBecameModules
    /\ Provided # <<>> =>
         \E k \in 1..(Len(provideBody) - 1) :
           /\ provideBody[k].callee = DeclareLegacyNamespace
           /\ provideBody[k + 1].callee = GoogModule
           /\ provideBody[k + 1].arg = Provided[1].arg

\* C7 as amended: every goog.provide(name) call becomes a goog.module
\* declaration of the same name and with the same comments; the
\* declarations open the program body in the reverse order of the calls, and
\* the legacy-namespace marker stands immediately after the declaration of
\* the first call.
C7_LegacyMarkerAfterFirstModule ==
  providePc = "done" =>
    /\ ProvidesBecameModules
    /\ \A i \in 1..Len(Provided) :
         /\ provideBody[Len(Provided) + 1 - i].callee = GoogModule
         /\ provideBody[Len(Provided) + 1 - i].arg = Provided[i].arg
         /\ provideBody[Len(Provided) + 1 - i].hasComments = Provided[i].hasComments
    /\ Provided # <<>> =>
         provideBody[Len(Provided) + 1].callee = DeclareLegacyNamespace

\* C7 witness: a program of two goog.provide calls of different names after
\* another statement has been rewritten.
C7_Witness ==
  /\ providePc = "done"
  /\ Len(Provided) = 2
  /\ Provided[1].arg # Provided[2].arg
  /\ ~IsProvideCall(provideOriginal[1])
  /\ provideBody[3].callee = DeclareLegacyNamespace

\* The instance methods of the class registered for app.Widget.
WidgetInstanceMethods ==
  SelectSeq(WidgetClass.methods,
            LAMBDA method : method.kind = "method" /\ ~method.static)

\* The name is mentioned by a method of the class: by a qualified reference,
\* by a callee or by the member name a call passes.
MentionsInClass(class, name) ==
  \E m \in 1..Len(class.methods) :
    \/ \E r \in 1..Len(class.methods[m].refs) :
         \E i \in 1..Len(class.methods[m].refs[r]) :
           class.methods[m].refs[r][i] = name
    \/ \E c \in 1..Len(class.methods[m].calls) :
         \/ \E i \in 1..Len(class.methods[m].calls[c].callee) :
              class.methods[m].calls[c].callee[i] = name
         \/ \E i \in 1..Len(class.methods[m].calls[c].args) :
              class.methods[m].calls[c].args[i] = name

\* The program of the scenario: the constructor declaration of app.Widget
\* and its one @private instance member render_.
IsRenderScenario == original = Numbered(<<CtorWidget, ProtoFunction>>)

\* C11: after convertClass on the program of app.Widget and its one @private
\* function member app.Widget.prototype.render_, the class Widget has the one
\* instance method render, no assignment to a prototype member is left in
\* the program, and nothing inside the class mentions render_.
C11_PrivateMemberBecomesRender ==
  (WidgetConverted /\ IsRenderScenario) =>
    /\ WidgetClass.name = "Widget"
    /\ Len(WidgetInstanceMethods) = 1
    /\ WidgetInstanceMethods[1].key = "render"
    /\ \A k \in 1..Len(programBody) :
         programBody[k].type = "Assignment" =>
           \A i \in 1..Len(programBody[k].left) :
             programBody[k].left[i] # "prototype"
    /\ ~MentionsInClass(WidgetClass, "render_")

\* ------------------------------------------------- isDef transform claims
\* The helper the transform that runs replaces.
HelperOfTransform ==
  IF transform = "isdef" THEN "isDef" ELSE "isDefAndNotNull"

\* The comparison the claim gives for a call of the helper:  x !== undefined
\* and  x != null,  or  x === undefined  and  x == null  when negated.
ClaimedComparison(stmt) ==
  [NoBinaryStmt EXCEPT
     !.type = "BinaryExpression", !.argument = stmt.argument,
     !.nots = IF stmt.nots > 0 THEN stmt.nots - 1 ELSE 0,
     !.operator = IF transform = "isdef"
                  THEN IF stmt.nots > 0 THEN "===" ELSE "!=="
                  ELSE IF stmt.nots > 0 THEN "==" ELSE "!=",
     !.right = IF transform = "isdef" THEN "undefined" ELSE "null"]

\* C12: the isdef transform replaces goog.isDef(x) by x !== undefined, and by
\* x === undefined under a "!"; the isdefandnotnull transform replaces
\* goog.isDefAndNotNull(x) by x != null, and by x == null under a "!"; other
\* statements stay, and for x undefined, null or an object every statement
\* has the truth value after the transform that it had before.
C12_CallBecomesEquivalentComparison ==
  binaryPc = "done" =>
    /\ Len(binaryBody) = Len(binaryOriginal)
    /\ \A k \in 1..Len(binaryOriginal) :
         /\ binaryBody[k] =
              IF binaryOriginal[k].callee = HelperOfTransform
              THEN ClaimedComparison(binaryOriginal[k])
              ELSE binaryOriginal[k]
         /\ TruthValue(binaryBody[k]) = TruthValue(binaryOriginal[k])

\* C12 witness: the isdefandnotnull transform has rewritten a negated call on
\* undefined and a plain call on null.
C12_Witness ==
  /\ binaryPc = "done"
  /\ transform = "isdefandnotnull"
  /\ Len(binaryOriginal) = 2
  /\ binaryOriginal[1].callee = "isDefAndNotNull"
  /\ binaryOriginal[1].nots = 1
  /\ binaryOriginal[1].argument = "u"
  /\ binaryOriginal[2].callee = "isDefAndNotNull"
  /\ binaryOriginal[2].nots = 0
  /\ binaryOriginal[2].argument = "n"
  /\ binaryBody[1].operator = "=="
  /\ binaryBody[2].operator = "!="
  /\ TruthValue(binaryBody[1])
  /\ ~TruthValue(binaryBody[2])

\* ------------------------------------------------ exportProperty claims
\* The statement of the output that has the given id, NoExportStmt when the
\* output holds none.
ExportedStmt(id) ==
  IF \E j \in 1..Len(exportBody) : exportBody[j].id = id
  THEN exportBody[CHOOSE j \in 1..Len(exportBody) : exportBody[j].id = id]
  ELSE NoExportStmt

\* The name of the function a goog.exportProperty call exports: the property
\* of its third argument.
ExportedFunctionName(stmt) ==
  IF stmt.memberRefs = <<>> THEN <<>> ELSE stmt.memberRefs[1].property

\* The statement at position k of the parsed program is a call the claim has
\* removed: on <X>.prototype, exporting the function under its own name or
\* its name without the trailing underscore, and directly preceded by an
\* expression statement that carries a block comment.
IsRemovableExport(k) ==
  /\ exportOriginal[k].type = "GEP"
  /\ TargetsPrototype(exportOriginal[k])
  /\ \/ ExportedFunctionName(exportOriginal[k]) = exportOriginal[k].exportName
     \/ ExportedFunctionName(exportOriginal[k])
          = Append(exportOriginal[k].exportName, "_")
  /\ k > 1
  /\ exportOriginal[k - 1].commentType = "CommentBlock"

\* C13: after the transform no goog.exportProperty call is left: a call on a
\* prototype that exports the function declared right before it under its
\* name is removed, and the block comment before it has @export and no
\* @protected; every other call goog.exportProperty(a, b, c) is the
\* assignment a[b] = c.
C13_NoExportPropertyCallRemains ==
  exportPc = "done" =>
    /\ exportThrown = "none"
    /\ \A j \in 1..Len(exportBody) : exportBody[j].type # "GEP"
    /\ \A k \in 1..Len(exportOriginal) :
         exportOriginal[k].type = "GEP" =>
           IF IsRemovableExport(k)
           THEN /\ ExportedStmt(k) = NoExportStmt
                /\ Contains(ExportedStmt(k - 1).comment, "@export")
                /\ ~Contains(ExportedStmt(k - 1).comment, "@protected")
           ELSE /\ ExportedStmt(k).type = "Assignment"
                /\ ExportedStmt(k).computed
                /\ ExportedStmt(k).object = exportOriginal[k].target
                /\ ExportedStmt(k).property = exportOriginal[k].exportName
                /\ ExportedStmt(k).memberRefs = exportOriginal[k].memberRefs

\* The step is a convertClass call on the declaration bound to moduleName.
ConvertClassStep(moduleName) ==
  /\ Len(callLog') = Len(callLog) + 1
  /\ callLog'[Len(callLog')].fn = "convertClass"
  /\ callLog'[Len(callLog')].moduleName = moduleName

\* convertClass ran to its end on the declaration bound to moduleName.
Converted(moduleName) ==
  /\ thrown = "none"
  /\ \E i \in 1..Len(callLog) :
       callLog[i].fn = "convertClass" /\ callLog[i].moduleName = moduleName

\* The instance members convertPrototypeAssignment warns about: the value is
\* neither a function nor a member expression.
UnsafeMembers(body, moduleName) ==
  {k \in 1..Len(body) :
     /\ IsPrototypeAssignment(body[k], moduleName)
     /\ body[k].rtype \notin {"FunctionExpression", "MemberExpression"}}

\* The superClass_ chains replaceSuperclassWithSuper warns about: they name
\* another class than moduleName.
ForeignChains(w, moduleName) ==
  SelectSeq(AllCalls(w),
            LAMBDA c : IsSuperClassChain(c) /\ SuperClassOwner(c) # moduleName)

\* The warning of convertPrototypeAssignment for the statement is among the
\* messages after the first given ones.
WarnedMember(messages, given, stmt, moduleName) ==
  \E i \in (given + 1)..Len(messages) :
    messages[i] = [moduleName |-> moduleName,
                   name |-> <<stmt.left[Len(stmt.left)]>>,
                   what |-> stmt.rtype]

\* The number of superClass_ warnings among the messages after the first
\* given ones.
ChainWarnings(messages, given) ==
  Cardinality({i \in (given + 1)..Len(messages) : messages[i].what = "superClass_"})

PassesStarted(order) == {order[i] : i \in 1..Len(order)}

PassesOfConvertClass ==
  <<"extract", "register", "prototype", "base", "superClass_", "static",
    "singleton", "inherits", "references", "exports">>

\* The stage the claim puts each pass in.
ClaimedStage(pass) ==
  CASE pass \in {"extract", "register"}               -> 1
    [] pass \in {"prototype", "static"}               -> 2
    [] pass \in {"inherits", "base", "superClass_"}   -> 3
    [] pass = "singleton"                             -> 4
    [] pass = "references"                            -> 5
    [] pass = "exports"                               -> 6

IsPrefixOf(s, t) == Len(s) <= Len(t) /\ s = SubSeq(t, 1, Len(s))

OutsideExports(body) ==
  {k \in 1..Len(body) :
     /\ body[k].type = "Assignment"
     /\ body[k].memberRefs = <<>>
     /\ (k < Len(body) => ~isGEPCall(body[k + 1]))
     /\ \A c \in 1..Len(body) : isGEPCall(body[c]) => body[k].object # body[c].target}

\* The position of the statement with the given id, 0 when there is none.
PositionOf(body, id) ==
  IF \E j \in 1..Len(body) : body[j].id = id
  THEN CHOOSE j \in 1..Len(body) : body[j].id = id
  ELSE 0

\* C17: after one run of a transform, every statement that has none of the
\* recognized shapes and no reference to a converted path is in the program
\* as it was before the run, and these statements are in the order they had.
C17_UnrecognizedStatementsUntouched ==
  (exportPc = "done" /\ exportThrown = "none") =>
    /\ \A k \in OutsideExports(exportOriginal) :
         /\ PositionOf(exportBody, exportOriginal[k].id) # 0
         /\ exportBody[PositionOf(exportBody, exportOriginal[k].id)]
              = exportOriginal[k]
    /\ \A k, l \in OutsideExports(exportOriginal) :
         k < l => PositionOf(exportBody, exportOriginal[k].id)
                    <= PositionOf(exportBody, exportOriginal[l].id)

\* ------------------------------------------------------ inheritance claims
\* The calls inside the members of app.Widget: inside the assignments to a
\* path under app.Widget (Widget once the references are rewritten) and
\* inside the methods of its class node.
WidgetMemberCalls ==
  Flatten([k \in 1..Len(programBody) |->
             IF /\ programBody[k].type = "Assignment"
                /\ \/ IsPrefixOf(WidgetPath, programBody[k].left)
                   \/ IsPrefixOf(<<"Widget">>, programBody[k].left)
             THEN programBody[k].calls ELSE <<>>])
  \o (IF getClassNode(registry, WidgetPath) = 0 THEN <<>>
      ELSE Flatten([m \in 1..Len(WidgetClass.methods) |->
                      WidgetClass.methods[m].calls]))

\* C18: a chain  <X>.superClass_.<fn>.call(this, ...)  becomes a super call
\* only when X is the class that encloses it. The programs call init only
\* through the chain app.Base.superClass_.init.call(this, x) inside the
\* member render_ of app.Widget, so no member of app.Widget ever holds the
\* call super.init(x), whichever of app.Widget and app.Base is converted
\* first.
C18_ChainOfOtherClassNeverBecomesSuper ==
  \A i \in 1..Len(WidgetMemberCalls) :
    WidgetMemberCalls[i].callee # <<"super", "init">>

\* The call the claim puts in place of  <path>.base(this, '<name>', a1..an):
\* super(a1..an) for the name constructor, super.<name>(a1..an) otherwise.
ClaimedSuperCall(call) ==
  [callee   |-> IF call.args[2] = "constructor" THEN <<"super">>
                ELSE <<"super", call.args[2]>>,
   args     |-> [i \in 1..(Len(call.args) - 2) |-> call.args[i + 2]],
   argTypes |-> [i \in 1..(Len(call.args) - 2) |-> call.argTypes[i + 2]]]

\* What the claim says of one call when the class bound to moduleName is
\* converted.
ClaimedBaseRewrite(call, moduleName) ==
  IF call.callee = Append(moduleName, "base") /\ call.argTypes[2] = "Literal"
  THEN ClaimedSuperCall(call)
  ELSE call

CallsOf(w) == {AllCalls(w)[i] : i \in 1..Len(AllCalls(w))}

\* C19: the base pass of convertClass on any program replaces every call
\* <path>.base(this, '<name>', a1..an)  of the class being converted by
\* super(a1..an) when name is constructor and by super.<name>(a1..an)
\* otherwise, the arguments after the second in their order, and leaves every
\* other call, a base call whose second argument is no literal included, as
\* it is; and a convertClass call that runs to its end returns these super
\* calls.
C19_BaseCallBecomesSuperCall ==
  /\ [](\A moduleName \in {WidgetPath, BasePath} :
          LET before == AllCalls(World)
              after  == AllCalls(BasePass(World, moduleName))
          IN /\ Len(after) = Len(before)
             /\ \A i \in 1..Len(before) :
                  after[i] = ClaimedBaseRewrite(before[i], moduleName))
  /\ [][\A moduleName \in {WidgetPath, BasePath} :
          (ConvertClassStep(moduleName) /\ thrown' = "none") =>
            \A c \in CallsOf(World) :
              ClaimedBaseRewrite(c, moduleName) # c =>
                /\ ClaimedSuperCall(c) \in CallsOf(World')
                /\ c \notin CallsOf(World')]_vars

\* C19 witness: app.Widget is converted; its constructor holds super(x), its
\* member create holds super.create(x, y), and the call with the identifier
\* name as second argument is still a base call with its three arguments.
C19_Witness ==
  /\ Converted(WidgetPath)
  /\ [callee |-> <<"super">>, args |-> <<"x">>, argTypes |-> <<"Identifier">>]
       \in CallsOf(World)
  /\ [callee |-> <<"super", "create">>, args |-> <<"x", "y">>,
      argTypes |-> <<"Identifier", "Identifier">>] \in CallsOf(World)
  /\ \E c \in CallsOf(World) :
       /\ c.callee[Len(c.callee)] = "base"
       /\ c.args = <<"this", "name", "x">>

\* ------------------------------------------------- parameter block claims
\* The line starts with "*" and at least three spaces.
HasBlockIndent(part) ==
  LET trimmed == Trim(part)
  IN Len(trimmed) >= 4 /\ SubSeq(trimmed, 1, 4) = <<"*", " ", " ", " ">>

\* The line starts with "* @param".
StartsParam(part) ==
  LET trimmed == Trim(part)
  IN Len(trimmed) >= 3 /\ SubSeq(trimmed, 1, 3) = <<"*", " ", "@param">>

\* The parameter block as the claim draws it: line k is inside when it has
\* the indentation and the line before it starts with "* @param" or is
\* inside.
RECURSIVE ClaimedInBlock(_, _)
ClaimedInBlock(parts, k) ==
  /\ k > 1
  /\ HasBlockIndent(parts[k])
  /\ StartsParam(parts[k - 1]) \/ ClaimedInBlock(parts, k - 1)

\* The parameter block as the loop draws it: a "* @param" line that is
\* dropped does not open it.
RECURSIVE InBlock(_, _)
InBlock(parts, k) ==
  /\ k > 1
  /\ HasBlockIndent(parts[k])
  /\ \/ StartsParam(parts[k - 1]) /\ ~IsDroppedTag(parts[k - 1])
     \/ InBlock(parts, k - 1)

\* C20 as stated: a line starting with "* @param" goes to the constructor
\* partition and opens the block, every indented line inside the block goes
\* to the constructor partition, and an indented line outside the block goes
\* to the class partition.
C20_IndentedLinesFollowTheBlock ==
  \A k \in 1..Len(routed) :
    /\ StartsParam(origParts[k]) => routed[k] = "param"
    /\ ClaimedInBlock(origParts, k) => routed[k] = "param"
    /\ (HasBlockIndent(origParts[k]) /\ ~ClaimedInBlock(origParts, k))
         => routed[k] = "class"

\* C20 as amended: a line of the dropped tags is dropped wherever it stands,
\* and inside the block it leaves the block open; of the other lines, a line
\* starting with "* @param" and a line inside the block go to the
\* constructor partition as parameter lines, a line with @ngInject goes to
\* the constructor partition, and every other line, an indented line outside
\* the block included, goes to the class partition. The flag is set after a
\* line exactly when the line went to the parameter lines or was dropped
\* inside the block.
C20_BlockFollowsIndentationAndDrops ==
  /\ \A k \in 1..Len(routed) :
       routed[k] =
         IF IsDroppedTag(origParts[k]) THEN "drop"
         ELSE IF StartsParam(origParts[k]) \/ InBlock(origParts, k) THEN "param"
         ELSE IF Contains(origParts[k], "@ngInject") THEN "ctor"
         ELSE "class"
  /\ routed # <<>> =>
       (inParam <=> \/ routed[Len(routed)] = "param"
                    \/ /\ routed[Len(routed)] = "drop"
                       /\ InBlock(origParts, Len(routed)))

\* C20 witness: a finished split in which an indented @constructor line
\* inside the block was dropped, the indented line after it went to the
\* constructor partition, and an indented line outside the block went to the
\* class partition.
C20_Witness ==
  /\ splitPc = "done"
  /\ \E k \in 1..(Len(routed) - 1) :
       /\ InBlock(origParts, k)
       /\ routed[k] = "drop"
       /\ InBlock(origParts, k + 1)
       /\ routed[k + 1] = "param"
  /\ \E k \in 1..Len(routed) :
       HasBlockIndent(origParts[k]) /\ routed[k] = "class"

\* ------------------------------------------------------ dropped tag claims
\* The line carries an @extends tag with a generic parameter, {T<...>}.
CarriesGenericExtends(part) ==
  \E p \in 1..Len(part) :
    /\ part[p] = "@extends"
    /\ \E b \in (p + 1)..Len(part) :
         /\ part[b] = "{"
         /\ \E lt \in (b + 2)..Len(part) :
              /\ part[lt] = "<"
              /\ \E gt \in (lt + 2)..(Len(part) - 1) :
                   part[gt] = ">" /\ part[gt + 1] = "}"

\* The line is one the claim has dropped: it holds @constructor, or @extends
\* without a generic parameter.
ClaimedDropped(part) ==
  \/ \E p \in 1..Len(part) : part[p] = "@constructor"
  \/ (\E p \in 1..Len(part) : part[p] = "@extends") /\ ~CarriesGenericExtends(part)

LinesOf(parts) == {parts[i] : i \in 1..Len(parts)}

\* C21: a line holding @constructor, and a line holding @extends without a
\* generic parameter, is in neither partition and in neither returned
\* comment, inside a parameter block as outside; a line holding @extends
\* with a generic parameter is kept, and outside a parameter block it is in
\* the class partition and in the returned class comment.
C21_TagLinesDroppedGenericExtendsKept ==
  /\ \A k \in 1..Len(routed) :
       /\ ClaimedDropped(origParts[k]) =>
            /\ routed[k] = "drop"
            /\ origParts[k] \notin LinesOf(classCommentParts)
            /\ origParts[k] \notin LinesOf(ctorCommentParts)
       /\ (CarriesGenericExtends(origParts[k]) /\ ~ClaimedDropped(origParts[k])) =>
            /\ routed[k] # "drop"
            /\ ~ClaimedInBlock(origParts, k) =>
                 /\ routed[k] = "class"
                 /\ origParts[k] \in LinesOf(classCommentParts)
  /\ splitPc = "done" =>
       \A k \in 1..Len(origParts) :
         /\ ClaimedDropped(origParts[k]) =>
              /\ origParts[k] \notin LinesOf(SplitLines(classComments.body, <<>>))
              /\ origParts[k] \notin LinesOf(SplitLines(classComments.ctor, <<>>))
         /\ (CarriesGenericExtends(origParts[k]) /\ ~ClaimedDropped(origParts[k])
               /\ ~ClaimedInBlock(origParts, k)) =>
              origParts[k] \in LinesOf(SplitLines(classComments.body, <<>>))

\* C21 witness: a finished split that dropped an indented @constructor line
\* inside the parameter block and an @extends line without a generic
\* parameter, and kept an @extends line with one in the class comment.
C21_Witness ==
  /\ splitPc = "done"
  /\ \E k \in 1..Len(routed) :
       /\ ClaimedInBlock(origParts, k)
       /\ ClaimedDropped(origParts[k])
       /\ routed[k] = "drop"
  /\ \E k \in 1..Len(routed) : origParts[k] = ExtendsLine /\ routed[k] = "drop"
  /\ ExtendsGenericLine \in LinesOf(SplitLines(classComments.body, <<>>))

\* ------------------------------------------------- private static claims
\* The @private static properties of app.Widget in the parsed program whose
\* value is no function: the positions of their assignments.
PrivateStatics ==
  {k \in 1..Len(original) :
     /\ IsStaticAssignment(original[k], WidgetPath)
     /\ original[k].rtype # "FunctionExpression"
     /\ isPrivate(original[k])}

\* The value of the assignment refers to the class path.
RefersToClass(stmt) ==
  \E r \in 1..Len(stmt.refs) : HasPrefix(stmt.refs[r], WidgetPath)

\* The positions of the module-scoped bindings of the name in the program.
BindingsOf(name) ==
  {j \in 1..Len(programBody) :
     programBody[j].type = "VariableDeclaration" /\ programBody[j].name = name}

\* The position of the class declaration of app.Widget in the program.
WidgetDeclaration ==
  CHOOSE j \in 1..Len(programBody) :
    /\ programBody[j].type = "ClassDeclaration"
    /\ programBody[j].node = getClassNode(registry, WidgetPath)

\* convertClass of src/src/utils/classes.js ran to its end on app.Widget.
WidgetConvertedByUtils == impl = "utils" /\ Converted(WidgetPath)

PrivateStaticNames(refers) ==
  LET sel == SelectSeq(original,
               LAMBDA s : /\ IsStaticAssignment(s, WidgetPath)
                          /\ s.rtype # "FunctionExpression"
                          /\ isPrivate(s)
                          /\ RefersToClass(s) = refers)
  IN [i \in 1..Len(sel) |-> sel[i].left[Len(sel[i].left)]]

\* The statement is the const binding of the name.
IsConstBinding(stmt, name) ==
  stmt.type = "VariableDeclaration" /\ stmt.declKind = "const" /\ stmt.name = name

CountCalls(body, callee) ==
  Cardinality({k \in 1..Len(body) : body[k].callee = callee})

\* C23: after replaceProvidesWithModules on a program with n goog.provide
\* calls no goog.provide call is left, the program holds n goog.module
\* declarations, one goog.module.declareLegacyNamespace() when n >= 1 and
\* none when n = 0, and the returned list holds the n names in the order of
\* the calls.
C23_ProvidesCountedAndListedInOrder ==
  providePc = "done" =>
    /\ CountCalls(provideBody, GoogProvide) = 0
    /\ CountCalls(provideBody, GoogModule) = Len(Provided)
    /\ CountCalls(provideBody, DeclareLegacyNamespace)
         = (IF Len(Provided) >= 1 THEN 1 ELSE 0)
    /\ modules = [i \in 1..Len(Provided) |-> Provided[i].arg]

\* C23 witness: the function of classes.js ran on a program with two
\* goog.provide calls of different names and another statement.
C23_Witness ==
  /\ providePc = "done"
  /\ impl = "utils"
  /\ Len(Provided) = 2
  /\ Provided[1].arg # Provided[2].arg
  /\ Len(provideOriginal) = 3
  /\ modules = <<Provided[1].arg, Provided[2].arg>>

\* ------------------------------------------------------- second-run claims
\* C15: a transform run a second time on the output of its first run changes
\* nothing: the exportProperty transform, replaceProvidesWithModules, the
\* isdef and isdefandnotnull transforms and the class conversion each return
\* the program they were given.
C15_SecondRunChangesNothing ==
  [][/\ exportPc' = "rerun" => (exportBody' = exportBody /\ exportThrown' = "none")
     /\ providePc' = "rerun" => (provideBody' = provideBody /\ modules' = <<>>)
     /\ binaryPc' = "rerun" => binaryBody' = binaryBody
     /\ (callLog' # <<>> /\ callLog'[Len(callLog')].fn = "rerun") =>
          /\ programBody' = programBody
          /\ classNodes' = classNodes
          /\ exported' = exported
          /\ warnings' = warnings
          /\ thrown' = "none"]_vars

\* C15 witness: the second run of the exportProperty transform was given a
\* program its first run changed.
C15_Witness ==
  /\ exportPc = "rerun"
  /\ exportBody # exportOriginal

\* ------------------------------------------------------------ specifications
\* No comment is being split.
SplitIdle ==
  /\ comment = <<>>
  /\ origParts = <<>>
  /\ lineIdx = 1
  /\ inParam = FALSE
  /\ classCommentParts = <<>>
  /\ ctorCommentParts = <<>>
  /\ routed = <<>>
  /\ splitPc = "idle"
  /\ classComments = NoComments

\* The class registry and the program before a run starts.
ClassIdle ==
  /\ impl = "scripts"
  /\ original = <<>>
  /\ programBody = <<>>
  /\ classNodes = <<>>
  /\ registry = <<>>
  /\ warnings = <<>>
  /\ thrown = "none"
  /\ exported = <<>>
  /\ nextId = 1
  /\ callLog = <<>>
  /\ passOrder = <<>>

\* No converted program is loaded.
RunIdle ==
  /\ loaded = FALSE
  /\ instance = 0
  /\ constructed = 0
  /\ returned = <<>>

\* No program is given to replaceProvidesWithModules.
ProvideIdle ==
  /\ provideOriginal = <<>>
  /\ provideBody = <<>>
  /\ modules = <<>>
  /\ providePc = "idle"

\* No program is given to the exportProperty transform.
ExportIdle ==
  /\ exportOriginal = <<>>
  /\ exportBody = <<>>
  /\ exportThrown = "none"
  /\ exportPc = "idle"

\* No program is given to the isDef transforms.
BinaryIdle ==
  /\ transform = "isdef"
  /\ binaryOriginal = <<>>
  /\ binaryBody = <<>>
  /\ binaryPc = "idle"

\* The comment splitter on every comment of at most MaxLines chosen lines.
InitSplit == SplitInit /\ ClassIdle /\ RunIdle /\ ProvideIdle /\ ExportIdle /\ BinaryIdle

SplitNext == splitCommentsForClassStep \/ splitCommentsForClassReturn

SpecSplit == InitSplit /\ [][SplitNext]_vars

\* replaceProvidesWithModules on every program of at most MaxProvideStmts
\* statements.
InitProvide == ProvideInit /\ SplitIdle /\ ClassIdle /\ RunIdle /\ ExportIdle /\ BinaryIdle

SpecProvide == InitProvide /\ [][ProvideNext]_vars

\* The exportProperty transform on every program of at most MaxExportStmts
\* statements.
InitExport == ExportInit /\ SplitIdle /\ ClassIdle /\ RunIdle /\ ProvideIdle /\ BinaryIdle

SpecExport == InitExport /\ [][ExportNext]_vars

\* Runs of the class conversion over every program of a declaration and at
\* most MaxStmts further statements, and the converted program run.
InitClass == ClassInit /\ SplitIdle /\ RunIdle /\ ProvideIdle /\ ExportIdle /\ BinaryIdle

SpecClass == InitClass /\ [][ClassNext]_vars

\* The functions of the classes module and of the registry called one by one,
\* in any order, on the same programs.
InitCalls == ClassInit /\ SplitIdle /\ RunIdle /\ ProvideIdle /\ ExportIdle /\ BinaryIdle

SpecCalls == InitCalls /\ [][CallsNext]_vars

\* The isdef and isdefandnotnull transforms on every program of at most
\* MaxBinaryStmts statements.
InitBinary ==
  BinaryInit /\ SplitIdle /\ ClassIdle /\ RunIdle /\ ProvideIdle /\ ExportIdle

SpecBinary == InitBinary /\ [][BinaryNext]_vars

\* Each transform on its programs, and then once more on what it returned.
InitRerun == InitExport \/ InitProvide \/ InitBinary \/ InitClass

SpecRerun == InitRerun /\ [][RerunNext]_vars

\* No class program is given; the functions are those of classes.js.
ClassIdleUtils ==
  /\ impl = "utils"
  /\ original = <<>>
  /\ programBody = <<>>
  /\ classNodes = <<>>
  /\ registry = <<>>
  /\ warnings = <<>>
  /\ thrown = "none"
  /\ exported = <<>>
  /\ nextId = 1
  /\ callLog = <<>>
  /\ passOrder = <<>>

\* replaceProvidesWithModules of either file on every program of at most
\* MaxProvideStmts statements.
InitModules ==
  /\ ProvideInit
  /\ ClassIdle \/ ClassIdleUtils
  /\ SplitIdle /\ RunIdle /\ ExportIdle /\ BinaryIdle

SpecModules == InitModules /\ [][ModulesNext]_vars
====
